---- MODULE Spec2Model ----
(***************************************************************************)
(* ESP32IMDB: a single-table, typed-column in-memory record store with     *)
(* per-record expiry, one mutex around every public operation, and an      *)
(* on-disk snapshot.  Model of src/src/ESP32IMDB.cpp and ESP32IMDB.h.       *)
(***************************************************************************)
EXTENDS Integers, Sequences, FiniteSets, TLC

(***************************************************************************)
(* Bounds of the model.                                                    *)
(***************************************************************************)
\* records an insert may bring the store to
MaxRecords == 3
\* the highest stamp a record is given
MaxInserts == 4
\* clock advances in one behaviour
MaxTicks == 2
\* records and stamps where the clock runs
MaxTimedRecords == 2
MaxTimedInserts == 2
\* records where the order of the store is followed
MaxOrderRecords == 3
\* records where the record array fills up and grows
MaxGrowRecords == 11
\* records where the table is saved and loaded
MaxFileRecords == 2
\* records where two tasks call
MaxLockRecords == 1

(***************************************************************************)
(* Program constants.                                                      *)
(***************************************************************************)
IMDB_MIN_HEAP_BYTES == 30000
IMDB_MAX_STRING_LENGTH == 255
InitialCapacity == 10
INT_MAX_HALF == 1073741823
UINT16_MAX == 65535
SizeofColumn == 36
SizeofFieldValue == 8
SizeofRecord == 12

(***************************************************************************)
(* uint32_t.  A 32-bit word is the pair <<hi, lo>> of its 16-bit halves,   *)
(* value hi * 65536 + lo: all arithmetic is modulo 2^32.                   *)
(***************************************************************************)
Half == 2^16

U32(hi, lo) == <<hi, lo>>

U32Zero == <<0, 0>>

U32Add(a, b) ==
  LET lo == a[2] + b[2]
      hi == a[1] + b[1] + (lo \div Half)
  IN  <<hi % Half, lo % Half>>

U32Sub(a, b) ==
  LET lo == a[2] - b[2] + Half
      hi == a[1] - b[1] + Half - (IF lo < Half THEN 1 ELSE 0)
  IN  <<hi % Half, lo % Half>>

\* a > b as unsigned 32-bit values
U32Greater(a, b) == a[1] > b[1] \/ (a[1] = b[1] /\ a[2] > b[2])

\* (int32_t)a >= 0: the sign bit of the word is clear
Int32NonNegative(a) == a[1] < 32768

\* 30UL * 24UL * 60UL * 60UL * 1000UL = 2592000000 = 39550 * 65536 + 51200
IMDB_MAX_TTL_MS == U32(39550, 51200)

(***************************************************************************)
(* Times of the real world (not wrapped): <<hi, lo>> with hi unbounded.    *)
(***************************************************************************)
TimeAdd(a, b) ==
  LET lo == a[2] + b[2]
  IN  <<a[1] + b[1] + (lo \div Half), lo % Half>>

TimeLess(a, b) == a[1] < b[1] \/ (a[1] = b[1] /\ a[2] < b[2])

\* the reading of the 32-bit millisecond clock at real time t
ClockAt(t) == <<t[1] % Half, t[2]>>

(***************************************************************************)
(* Pointers.  A null pointer is the empty tuple, a pointer to x is <<x>>.  *)
(***************************************************************************)
NULLPTR == <<>>

Ptr(x) == <<x>>

Deref(p) == p[1]

(***************************************************************************)
(* enum IMDBDataType, enum IMDBResult, enum IMDBOperator.                  *)
(***************************************************************************)
IMDBDataType ==
  {"IMDB_TYPE_INT32", "IMDB_TYPE_MAC", "IMDB_TYPE_STRING",
   "IMDB_TYPE_EPOCH", "IMDB_TYPE_BOOL", "IMDB_TYPE_FLOAT"}

IMDBResult ==
  {"IMDB_OK", "IMDB_ERROR_OUT_OF_MEMORY", "IMDB_ERROR_HEAP_LIMIT",
   "IMDB_ERROR_TABLE_EXISTS", "IMDB_ERROR_NO_TABLE", "IMDB_ERROR_INVALID_TYPE",
   "IMDB_ERROR_INVALID_VALUE", "IMDB_ERROR_COLUMN_COUNT_MISMATCH",
   "IMDB_ERROR_COLUMN_NOT_FOUND", "IMDB_ERROR_INVALID_OPERATION",
   "IMDB_ERROR_NO_RECORDS", "IMDB_ERROR_INVALID_MAC_FORMAT",
   "IMDB_ERROR_FILE_OPEN", "IMDB_ERROR_FILE_WRITE", "IMDB_ERROR_FILE_READ",
   "IMDB_ERROR_CORRUPT_FILE"}

IMDBOperator ==
  {"IMDB_OP_EQUAL", "IMDB_OP_NOT_EQUAL", "IMDB_OP_GREATER", "IMDB_OP_LESS",
   "IMDB_OP_GREATER_EQUAL", "IMDB_OP_LESS_EQUAL"}

(***************************************************************************)
(* The state.                                                              *)
(*   _columns         NULLPTR, or Ptr of the sequence of [name, type]      *)
(*   _records         NULLPTR, or Ptr of the slots below _recordCount of   *)
(*                    the record array; a slot is [fields, expiryMillis,   *)
(*                    isValid] plus the history fields serial (a stamp     *)
(*                    above that of every record in the store when this    *)
(*                    one came), ttl, due (the real time of the deadline,  *)
(*                    <<0, 0>> without a TTL), which travel with the       *)
(*                    struct when it is copied;                            *)
(*                    fields is NULLPTR or Ptr of the field values         *)
(*   _mutex           NULLPTR when xSemaphoreCreateMutex failed            *)
(*   holder           the task that holds _mutex, or NoTask                *)
(*   pc, call         where each calling task is, and the operation it     *)
(*                    called                                               *)
(*   now              real time since construction (history)              *)
(*   start            the reading of millis() at construction              *)
(*   fs               the snapshot file and the temporary file             *)
(*   last             under one caller, the public call that returned      *)
(*                    last: its name, its result code and what it handed   *)
(*                    back                                                 *)
(*   ticks            clock advances so far                                *)
(*   heap             the buffers of the records by address: the record    *)
(*                    array with its field pointers, the cells malloc      *)
(*                    handed out, and the frees of a cell that was not     *)
(*                    allocated (kept up by the Mem actions only)          *)
(***************************************************************************)
VARIABLES _columns, _columnCount, _records, _recordCount, _recordCapacity,
          _tableExists, _mutex, holder, pc, call, now, start, fs, last,
          ticks, heap

store == <<_columns, _columnCount, _records, _recordCount, _recordCapacity,
           _tableExists>>

tasks == <<_mutex, holder, pc, call>>

vars == <<_columns, _columnCount, _records, _recordCount, _recordCapacity,
          _tableExists, _mutex, holder, pc, call, now, start, fs, last,
          ticks, heap>>

\* the members of the object an operation works on, as one value
Members ==
  [columns |-> _columns, columnCount |-> _columnCount, records |-> _records,
   recordCount |-> _recordCount, recordCapacity |-> _recordCapacity,
   tableExists |-> _tableExists]

\* millis()
millis == U32Add(start, ClockAt(now))

(***************************************************************************)
(* checkHeapLimit: ESP.getFreeHeap() >= IMDB_MIN_HEAP_BYTES.               *)
(***************************************************************************)
checkHeapLimit(freeHeap) == freeHeap >= IMDB_MIN_HEAP_BYTES

\* what ESP.getFreeHeap() answers at the check named `at` when `fault` names
\* the collaborator call that fails in this operation
FreeHeap(fault, at) ==
  IF fault = at THEN IMDB_MIN_HEAP_BYTES - 1 ELSE IMDB_MIN_HEAP_BYTES

\* whether the malloc or realloc named `at` returns a buffer
Allocates(fault, at) == fault # at

(***************************************************************************)
(* Columns of the schema (1-based in the model, 0-based in the code).      *)
(***************************************************************************)
Column(S, idx) == Deref(S.columns)[idx + 1]

RECURSIVE findFrom(_, _, _)
findFrom(S, columnName, i) ==
  IF i >= S.columnCount THEN -1
  ELSE IF Column(S, i).name = columnName THEN i
  ELSE findFrom(S, columnName, i + 1)

findColumnIndex(S, columnName) == findFrom(S, columnName, 0)

(***************************************************************************)
(* Strings are sequences of characters; strlen, and the copy of at most    *)
(* IMDB_MAX_STRING_LENGTH characters into a buffer of len + 1 bytes.       *)
(***************************************************************************)
strlen(s) == Len(s)

Truncated(s) ==
  IF strlen(s) > IMDB_MAX_STRING_LENGTH
  THEN SubSeq(s, 1, IMDB_MAX_STRING_LENGTH) ELSE s

(***************************************************************************)
(* copyFieldValue: the value stored for src, and the result code.  src is  *)
(* a non-null pointer to the caller's value; for a string column the value *)
(* is itself a char pointer.  On an error dest is left as it was.          *)
(***************************************************************************)
copyFieldValue(dest, src, type, mallocOk) ==
  IF type = "IMDB_TYPE_STRING" THEN
    LET srcStr == Deref(src) IN
    IF srcStr = NULLPTR
    THEN [result |-> "IMDB_ERROR_INVALID_VALUE", value |-> dest]
    ELSE IF ~mallocOk
    THEN [result |-> "IMDB_ERROR_OUT_OF_MEMORY", value |-> NULLPTR]
    ELSE [result |-> "IMDB_OK", value |-> Ptr(Truncated(Deref(srcStr)))]
  ELSE [result |-> "IMDB_OK", value |-> Deref(src)]

(***************************************************************************)
(* An isRecordExpired that does not set the expiry 0 apart.               *)
(***************************************************************************)
isRecordExpired_noMarker(expiryMillis, currentMillis) ==
  Int32NonNegative(U32Sub(currentMillis, expiryMillis))

(***************************************************************************)
(* isRecordExpired: (int32_t)(currentMillis - expiryMillis) >= 0, and      *)
(* never for expiryMillis == 0.                                            *)
(***************************************************************************)
isRecordExpired(expiryMillis, currentMillis) ==
  IF expiryMillis = U32Zero THEN FALSE
  ELSE Int32NonNegative(U32Sub(currentMillis, expiryMillis))

(***************************************************************************)
(* compareValues.  Floats are <<"num", p>>, <<"num", p, q>> for p / q, or  *)
(* <<"nan", 0>>; epochs are 32-bit words compared unsigned; MAC, string    *)
(* and bool ignore op.                                                     *)
(***************************************************************************)
IntCompare(a, b, op) ==
  CASE op = "IMDB_OP_EQUAL" -> a = b
    [] op = "IMDB_OP_NOT_EQUAL" -> a # b
    [] op = "IMDB_OP_GREATER" -> a > b
    [] op = "IMDB_OP_LESS" -> a < b
    [] op = "IMDB_OP_GREATER_EQUAL" -> a >= b
    [] op = "IMDB_OP_LESS_EQUAL" -> a <= b

EpochCompare(a, b, op) ==
  CASE op = "IMDB_OP_EQUAL" -> a = b
    [] op = "IMDB_OP_NOT_EQUAL" -> a # b
    [] op = "IMDB_OP_GREATER" -> U32Greater(a, b)
    [] op = "IMDB_OP_LESS" -> U32Greater(b, a)
    [] op = "IMDB_OP_GREATER_EQUAL" -> ~U32Greater(b, a)
    [] op = "IMDB_OP_LESS_EQUAL" -> ~U32Greater(a, b)

FloatCompare(a, b, op) ==
  IF a[1] = "nan" \/ b[1] = "nan" THEN op = "IMDB_OP_NOT_EQUAL"
  ELSE IntCompare(a[2] * (IF Len(b) = 3 THEN b[3] ELSE 1),
                  b[2] * (IF Len(a) = 3 THEN a[3] ELSE 1), op)

compareValues(fieldValue, compareValue, type, op) ==
  IF compareValue = NULLPTR THEN FALSE
  ELSE CASE type = "IMDB_TYPE_INT32" -> IntCompare(fieldValue, Deref(compareValue), op)
         [] type = "IMDB_TYPE_MAC" -> fieldValue = Deref(compareValue)
         [] type = "IMDB_TYPE_STRING" ->
              IF fieldValue = NULLPTR THEN FALSE
              ELSE Deref(fieldValue) = Deref(Deref(compareValue))
         [] type = "IMDB_TYPE_EPOCH" -> EpochCompare(fieldValue, Deref(compareValue), op)
         [] type = "IMDB_TYPE_BOOL" -> fieldValue = Deref(compareValue)
         [] type = "IMDB_TYPE_FLOAT" -> FloatCompare(fieldValue, Deref(compareValue), op)

(***************************************************************************)
(* freeRecord: the record's strings and its field array are released and   *)
(* the fields pointer is cleared.                                          *)
(***************************************************************************)
freeRecord(record) == [record EXCEPT !.fields = NULLPTR]

(***************************************************************************)
(* A compaction that fills each hole with the last record of the array.    *)
(***************************************************************************)
RECURSIVE fillFromEnd(_, _)
fillFromEnd(recs, i) ==
  IF i > Len(recs) THEN recs
  ELSE IF recs[i].isValid THEN fillFromEnd(recs, i + 1)
  ELSE IF i = Len(recs) THEN fillFromEnd(SubSeq(recs, 1, i - 1), i)
  ELSE fillFromEnd([SubSeq(recs, 1, Len(recs) - 1) EXCEPT ![i] = recs[Len(recs)]], i)

compactRecords_fillFromEnd(S) ==
  LET recs == fillFromEnd(Deref(S.records), 1)
  IN  [S EXCEPT !.records = Ptr(recs), !.recordCount = Len(recs)]

(***************************************************************************)
(* compactRecords: one forward pass with a write cursor.  A live record is *)
(* copied down to the cursor, its old slot is cleared, and the count is    *)
(* cut to the number of survivors.                                         *)
(***************************************************************************)
RECURSIVE compactLoop(_, _, _)
compactLoop(recs, readIndex, writeIndex) ==
  IF readIndex >= Len(recs)
  THEN [records |-> SubSeq(recs, 1, writeIndex), recordCount |-> writeIndex]
  ELSE IF recs[readIndex + 1].isValid
  THEN IF writeIndex # readIndex
       THEN compactLoop(
              [recs EXCEPT ![writeIndex + 1] = recs[readIndex + 1],
                           ![readIndex + 1] =
                              [recs[readIndex + 1] EXCEPT !.fields = NULLPTR,
                                                          !.isValid = FALSE]],
              readIndex + 1, writeIndex + 1)
       ELSE compactLoop(recs, readIndex + 1, writeIndex + 1)
  ELSE compactLoop(recs, readIndex + 1, writeIndex)

compactRecords(S) ==
  LET c == compactLoop(Deref(S.records), 0, 0)
  IN  [S EXCEPT !.records = Ptr(c.records), !.recordCount = c.recordCount]

(***************************************************************************)
(* What a public operation hands back: the members as it leaves them, its  *)
(* result code and its output.  Every return of a public operation is      *)
(* "unlock(); return ...;": unlocked says that unlock() was called.        *)
(***************************************************************************)
Return(S, result, out) ==
  [S |-> S, result |-> result, out |-> out, unlocked |-> TRUE]

NoFault == <<"none", 0>>

(***************************************************************************)
(* A createTable that looks at its arguments before it looks for a table.  *)
(***************************************************************************)
createTable_argumentsFirst(S, columns, columnCount, fault) ==
  IF columns = NULLPTR \/ columnCount = 0
  THEN Return(S, "IMDB_ERROR_INVALID_VALUE", NULLPTR)
  ELSE IF S.tableExists THEN Return(S, "IMDB_ERROR_TABLE_EXISTS", NULLPTR)
  ELSE IF ~checkHeapLimit(FreeHeap(fault, <<"heap", 0>>))
  THEN Return(S, "IMDB_ERROR_HEAP_LIMIT", NULLPTR)
  ELSE IF ~Allocates(fault, <<"columns", 0>>) \/ ~Allocates(fault, <<"records", 0>>)
  THEN Return([S EXCEPT !.columns = NULLPTR, !.records = NULLPTR],
              "IMDB_ERROR_OUT_OF_MEMORY", NULLPTR)
  ELSE Return([S EXCEPT !.columns = Ptr(SubSeq(Deref(columns), 1, columnCount)),
                        !.columnCount = columnCount,
                        !.tableExists = TRUE,
                        !.recordCapacity = InitialCapacity,
                        !.records = Ptr(<<>>), !.recordCount = 0],
              "IMDB_OK", NULLPTR)

(***************************************************************************)
(* A createTable that keeps the column array when the record array cannot  *)
(* be allocated.                                                           *)
(***************************************************************************)
createTable_columnsKept(S, columns, columnCount, fault) ==
  IF S.tableExists THEN Return(S, "IMDB_ERROR_TABLE_EXISTS", NULLPTR)
  ELSE IF columns = NULLPTR \/ columnCount = 0
  THEN Return(S, "IMDB_ERROR_INVALID_VALUE", NULLPTR)
  ELSE IF ~checkHeapLimit(FreeHeap(fault, <<"heap", 0>>))
  THEN Return(S, "IMDB_ERROR_HEAP_LIMIT", NULLPTR)
  ELSE IF ~Allocates(fault, <<"columns", 0>>)
  THEN Return([S EXCEPT !.columns = NULLPTR], "IMDB_ERROR_OUT_OF_MEMORY", NULLPTR)
  ELSE
    LET S1 == [S EXCEPT !.columns = Ptr(SubSeq(Deref(columns), 1, columnCount)),
                        !.columnCount = columnCount,
                        !.recordCapacity = InitialCapacity]
    IN  IF ~Allocates(fault, <<"records", 0>>)
        THEN Return([S1 EXCEPT !.records = NULLPTR],
                    "IMDB_ERROR_OUT_OF_MEMORY", NULLPTR)
        ELSE Return([S1 EXCEPT !.records = Ptr(<<>>), !.recordCount = 0,
                               !.tableExists = TRUE],
                    "IMDB_OK", NULLPTR)

(***************************************************************************)
(* createTable.  columns is NULLPTR or Ptr of the caller's array.          *)
(* Faults: <<"heap", 0>>, <<"columns", 0>>, <<"records", 0>>.              *)
(***************************************************************************)
createTable(S, columns, columnCount, fault) ==
  IF S.tableExists THEN Return(S, "IMDB_ERROR_TABLE_EXISTS", NULLPTR)
  ELSE IF columns = NULLPTR \/ columnCount = 0
  THEN Return(S, "IMDB_ERROR_INVALID_VALUE", NULLPTR)
  ELSE IF ~checkHeapLimit(FreeHeap(fault, <<"heap", 0>>))
  THEN Return(S, "IMDB_ERROR_HEAP_LIMIT", NULLPTR)
  ELSE IF ~Allocates(fault, <<"columns", 0>>)
  THEN Return([S EXCEPT !.columns = NULLPTR], "IMDB_ERROR_OUT_OF_MEMORY", NULLPTR)
  ELSE
    LET S1 == [S EXCEPT !.columns = Ptr(SubSeq(Deref(columns), 1, columnCount)),
                        !.columnCount = columnCount,
                        !.tableExists = TRUE,
                        !.recordCapacity = InitialCapacity]
    IN  IF ~Allocates(fault, <<"records", 0>>)
        THEN Return([S1 EXCEPT !.records = NULLPTR, !.columns = NULLPTR,
                               !.tableExists = FALSE],
                    "IMDB_ERROR_OUT_OF_MEMORY", NULLPTR)
        ELSE Return([S1 EXCEPT !.records = Ptr(<<>>), !.recordCount = 0],
                    "IMDB_OK", NULLPTR)

(***************************************************************************)
(* A dropTable that returns its error without unlock().                    *)
(***************************************************************************)
dropTable_lockKept(S) ==
  IF ~S.tableExists
  THEN [Return(S, "IMDB_ERROR_NO_TABLE", NULLPTR) EXCEPT !.unlocked = FALSE]
  ELSE Return([columns |-> NULLPTR, columnCount |-> 0, records |-> NULLPTR,
               recordCount |-> 0, recordCapacity |-> 0, tableExists |-> FALSE],
              "IMDB_OK", NULLPTR)

(***************************************************************************)
(* dropTable.                                                              *)
(***************************************************************************)
dropTable(S) ==
  IF ~S.tableExists THEN Return(S, "IMDB_ERROR_NO_TABLE", NULLPTR)
  ELSE Return([columns |-> NULLPTR, columnCount |-> 0, records |-> NULLPTR,
               recordCount |-> 0, recordCapacity |-> 0, tableExists |-> FALSE],
              "IMDB_OK", NULLPTR)

(***************************************************************************)
(* growRecordArray.  Faults: <<"growHeap", 0>>, <<"realloc", 0>>.          *)
(***************************************************************************)
\* a growth by one slot instead of a doubling
growRecordArray_byOne(S, fault) ==
  IF ~checkHeapLimit(FreeHeap(fault, <<"growHeap", 0>>))
  THEN [result |-> "IMDB_ERROR_HEAP_LIMIT", S |-> S]
  ELSE IF S.recordCapacity > INT_MAX_HALF
  THEN [result |-> "IMDB_ERROR_OUT_OF_MEMORY", S |-> S]
  ELSE IF ~Allocates(fault, <<"realloc", 0>>)
  THEN [result |-> "IMDB_ERROR_OUT_OF_MEMORY", S |-> S]
  ELSE [result |-> "IMDB_OK",
        S |-> [S EXCEPT !.recordCapacity = S.recordCapacity + 1]]

growRecordArray(S, fault) ==
  IF ~checkHeapLimit(FreeHeap(fault, <<"growHeap", 0>>))
  THEN [result |-> "IMDB_ERROR_HEAP_LIMIT", S |-> S]
  ELSE IF S.recordCapacity > INT_MAX_HALF
  THEN [result |-> "IMDB_ERROR_OUT_OF_MEMORY", S |-> S]
  ELSE IF ~Allocates(fault, <<"realloc", 0>>)
  THEN [result |-> "IMDB_ERROR_OUT_OF_MEMORY", S |-> S]
  ELSE [result |-> "IMDB_OK",
        S |-> [S EXCEPT !.recordCapacity = S.recordCapacity * 2]]

(***************************************************************************)
(* insert.  values is NULLPTR or Ptr of the caller's array of pointers,    *)
(* one per column.  Faults: <<"heap", 0>>, those of growRecordArray,       *)
(* <<"fields", 0>>, and <<"string", i>> for the string buffer of column i. *)
(* hist is the history part of the new record.                             *)
(***************************************************************************)
RECURSIVE copyValues(_, _, _, _, _)
copyValues(S, values, fault, i, fields) ==
  IF i >= S.columnCount THEN [result |-> "IMDB_OK", fields |-> fields]
  ELSE IF values[i + 1] = NULLPTR
  THEN [result |-> "IMDB_ERROR_INVALID_VALUE", fields |-> NULLPTR]
  ELSE
    LET c == copyFieldValue(fields[i + 1], values[i + 1], Column(S, i).type,
                            Allocates(fault, <<"string", i>>))
    IN  IF c.result # "IMDB_OK"
        THEN [result |-> c.result, fields |-> NULLPTR]
        ELSE copyValues(S, values, fault, i + 1,
                        [fields EXCEPT ![i + 1] = c.value])

\* an insert that takes the slot before it copies the fields and leaves it
\* taken when a copy fails
insert_slotFirst(S, values, ttlMillis, fault, currentMillis, hist) ==
  IF ~S.tableExists THEN Return(S, "IMDB_ERROR_NO_TABLE", NULLPTR)
  ELSE IF values = NULLPTR THEN Return(S, "IMDB_ERROR_INVALID_VALUE", NULLPTR)
  ELSE IF ~checkHeapLimit(FreeHeap(fault, <<"heap", 0>>))
  THEN Return(S, "IMDB_ERROR_HEAP_LIMIT", NULLPTR)
  ELSE IF U32Greater(ttlMillis, IMDB_MAX_TTL_MS)
  THEN Return(S, "IMDB_ERROR_INVALID_VALUE", NULLPTR)
  ELSE
    LET g  == IF S.recordCount >= S.recordCapacity
              THEN growRecordArray(S, fault)
              ELSE [result |-> "IMDB_OK", S |-> S]
        S1 == g.S
        slot(fields, valid) ==
          [fields |-> fields,
           expiryMillis |->
             IF U32Greater(ttlMillis, U32Zero)
             THEN U32Add(currentMillis, ttlMillis) ELSE U32Zero,
           isValid |-> valid,
           serial |-> hist.serial, ttl |-> ttlMillis,
           due |-> IF U32Greater(ttlMillis, U32Zero)
                   THEN TimeAdd(hist.now, ttlMillis) ELSE <<0, 0>>]
        taken(fields, valid) ==
          [S1 EXCEPT !.records = Ptr(Append(Deref(S1.records), slot(fields, valid))),
                     !.recordCount = S1.recordCount + 1]
    IN  IF g.result # "IMDB_OK" THEN Return(S, g.result, NULLPTR)
        ELSE IF ~Allocates(fault, <<"fields", 0>>)
        THEN Return(taken(NULLPTR, FALSE), "IMDB_ERROR_OUT_OF_MEMORY", NULLPTR)
        ELSE
          LET c == copyValues(S1, Deref(values), fault, 0,
                              [j \in 1..S1.columnCount |-> NULLPTR])
          IN  IF c.result # "IMDB_OK"
              THEN Return(taken(NULLPTR, FALSE), c.result, NULLPTR)
              ELSE Return(taken(Ptr(c.fields), TRUE), "IMDB_OK", NULLPTR)

insert(S, values, ttlMillis, fault, currentMillis, hist) ==
  IF ~S.tableExists THEN Return(S, "IMDB_ERROR_NO_TABLE", NULLPTR)
  ELSE IF values = NULLPTR THEN Return(S, "IMDB_ERROR_INVALID_VALUE", NULLPTR)
  ELSE IF ~checkHeapLimit(FreeHeap(fault, <<"heap", 0>>))
  THEN Return(S, "IMDB_ERROR_HEAP_LIMIT", NULLPTR)
  ELSE IF U32Greater(ttlMillis, IMDB_MAX_TTL_MS)
  THEN Return(S, "IMDB_ERROR_INVALID_VALUE", NULLPTR)
  ELSE
    LET g  == IF S.recordCount >= S.recordCapacity
              THEN growRecordArray(S, fault)
              ELSE [result |-> "IMDB_OK", S |-> S]
        S1 == g.S
    IN  IF g.result # "IMDB_OK" THEN Return(S, g.result, NULLPTR)
        ELSE IF ~Allocates(fault, <<"fields", 0>>)
        THEN Return(S1, "IMDB_ERROR_OUT_OF_MEMORY", NULLPTR)
        ELSE
          LET c == copyValues(S1, Deref(values), fault, 0,
                              [j \in 1..S1.columnCount |-> NULLPTR])
          IN  IF c.result # "IMDB_OK" THEN Return(S1, c.result, NULLPTR)
              ELSE
                LET record ==
                      [fields |-> Ptr(c.fields),
                       expiryMillis |->
                         IF U32Greater(ttlMillis, U32Zero)
                         THEN U32Add(currentMillis, ttlMillis) ELSE U32Zero,
                       isValid |-> TRUE,
                       serial |-> hist.serial, ttl |-> ttlMillis,
                       due |-> IF U32Greater(ttlMillis, U32Zero)
                               THEN TimeAdd(hist.now, ttlMillis) ELSE <<0, 0>>]
                IN  Return([S1 EXCEPT !.records = Ptr(Append(Deref(S1.records), record)),
                                      !.recordCount = S1.recordCount + 1],
                           "IMDB_OK", NULLPTR)

(***************************************************************************)
(* Helpers of the scans.                                                   *)
(***************************************************************************)
Field(record, idx) == Deref(record.fields)[idx + 1]

WithField(record, idx, value) ==
  [record EXCEPT !.fields = Ptr([Deref(record.fields) EXCEPT ![idx + 1] = value])]

WithRecords(S, recs) == [S EXCEPT !.records = Ptr(recs)]

\* a test of the validity alone
Skipped_validOnly(record, currentMillis) == ~record.isValid

\* the test every scan but deleteRecords makes before it looks at a record
Skipped(record, currentMillis) ==
  ~record.isValid \/ isRecordExpired(record.expiryMillis, currentMillis)

Matches(S, record, whereIdx, whereValue) ==
  compareValues(Field(record, whereIdx), whereValue, Column(S, whereIdx).type,
                "IMDB_OP_EQUAL")

(***************************************************************************)
(* update.  Column names are NULLPTR or Ptr of the name; whereValue and    *)
(* setValue are NULLPTR or Ptr of the value.  Faults: <<"string", i>> for  *)
(* the string buffer of the record in slot i.                              *)
(***************************************************************************)
RECURSIVE updateLoop(_, _, _, _, _, _, _, _)
updateLoop(S, q, fault, currentMillis, i, recs, updated, setType) ==
  IF i >= S.recordCount
  THEN Return(WithRecords(S, recs),
              IF updated THEN "IMDB_OK" ELSE "IMDB_ERROR_NO_RECORDS", NULLPTR)
  ELSE IF Skipped(recs[i + 1], currentMillis)
  THEN updateLoop(S, q, fault, currentMillis, i + 1, recs, updated, setType)
  ELSE IF Matches(S, recs[i + 1], q.whereIdx, q.whereValue)
  THEN
    LET freed == IF setType = "IMDB_TYPE_STRING"
                 THEN WithField(recs[i + 1], q.setIdx, NULLPTR)
                 ELSE recs[i + 1]
        c     == copyFieldValue(Field(freed, q.setIdx), q.setValue, setType,
                                Allocates(fault, <<"string", i>>))
        recs1 == [recs EXCEPT ![i + 1] = WithField(freed, q.setIdx, c.value)]
    IN  IF c.result # "IMDB_OK"
        THEN Return(WithRecords(S, recs1), c.result, NULLPTR)
        ELSE updateLoop(S, q, fault, currentMillis, i + 1, recs1, TRUE, setType)
  ELSE updateLoop(S, q, fault, currentMillis, i + 1, recs, updated, setType)

update(S, whereColumn, whereValue, setColumn, setValue, fault, currentMillis) ==
  IF ~S.tableExists THEN Return(S, "IMDB_ERROR_NO_TABLE", NULLPTR)
  ELSE IF whereColumn = NULLPTR \/ whereValue = NULLPTR
          \/ setColumn = NULLPTR \/ setValue = NULLPTR
  THEN Return(S, "IMDB_ERROR_INVALID_VALUE", NULLPTR)
  ELSE
    LET whereIdx == findColumnIndex(S, Deref(whereColumn))
        setIdx   == findColumnIndex(S, Deref(setColumn))
    IN  IF whereIdx < 0 \/ setIdx < 0
        THEN Return(S, "IMDB_ERROR_COLUMN_NOT_FOUND", NULLPTR)
        ELSE updateLoop(S, [whereIdx |-> whereIdx, whereValue |-> whereValue,
                            setIdx |-> setIdx, setValue |-> setValue],
                        fault, currentMillis, 0, Deref(S.records), FALSE,
                        Column(S, setIdx).type)

(***************************************************************************)
(* deleteRecords: only the validity of a record is tested before the       *)
(* comparison; the matches are freed and marked, then the array is         *)
(* compacted.                                                              *)
(***************************************************************************)
\* a loop that stops at the first match
deleteLoop_firstOnly(S, whereIdx, whereValue, i, recs, deleted) ==
  LET hits == {k \in 1..S.recordCount :
                 recs[k].isValid /\ Matches(S, recs[k], whereIdx, whereValue)}
  IN  IF hits = {} THEN [records |-> recs, deleted |-> FALSE]
      ELSE LET k == CHOOSE k \in hits : \A j \in hits : k <= j
           IN  [records |-> [recs EXCEPT ![k] =
                               [freeRecord(recs[k]) EXCEPT !.isValid = FALSE]],
                deleted |-> TRUE]

\* a deleteRecords that looks at its arguments before it looks for the table
deleteRecords_argumentsFirst(S, whereColumn, whereValue) ==
  IF whereColumn = NULLPTR \/ whereValue = NULLPTR
  THEN Return(S, "IMDB_ERROR_INVALID_VALUE", NULLPTR)
  ELSE Return(S, "IMDB_ERROR_NO_TABLE", NULLPTR)

RECURSIVE deleteLoop(_, _, _, _, _, _)
deleteLoop(S, whereIdx, whereValue, i, recs, deleted) ==
  IF i >= S.recordCount THEN [records |-> recs, deleted |-> deleted]
  ELSE IF ~recs[i + 1].isValid
  THEN deleteLoop(S, whereIdx, whereValue, i + 1, recs, deleted)
  ELSE IF Matches(S, recs[i + 1], whereIdx, whereValue)
  THEN deleteLoop(S, whereIdx, whereValue, i + 1,
                  [recs EXCEPT ![i + 1] =
                     [freeRecord(recs[i + 1]) EXCEPT !.isValid = FALSE]],
                  TRUE)
  ELSE deleteLoop(S, whereIdx, whereValue, i + 1, recs, deleted)

deleteRecords(S, whereColumn, whereValue) ==
  IF ~S.tableExists THEN Return(S, "IMDB_ERROR_NO_TABLE", NULLPTR)
  ELSE IF whereColumn = NULLPTR \/ whereValue = NULLPTR
  THEN Return(S, "IMDB_ERROR_INVALID_VALUE", NULLPTR)
  ELSE
    LET whereIdx == findColumnIndex(S, Deref(whereColumn))
    IN  IF whereIdx < 0 THEN Return(S, "IMDB_ERROR_COLUMN_NOT_FOUND", NULLPTR)
        ELSE
          LET d == deleteLoop(S, whereIdx, whereValue, 0, Deref(S.records), FALSE)
          IN  IF d.deleted
              THEN Return(compactRecords(WithRecords(S, d.records)), "IMDB_OK", NULLPTR)
              ELSE Return(S, "IMDB_ERROR_NO_RECORDS", NULLPTR)

(***************************************************************************)
(* purgeExpiredRecords, and the same purge inlined in saveToFile.          *)
(***************************************************************************)
\* a purge of every record that carries an expiry, whatever the clock
purgeMarked_everyExpiry(recs, currentMillis) ==
  [i \in 1..Len(recs) |->
     IF recs[i].isValid /\ recs[i].expiryMillis # U32Zero
     THEN [freeRecord(recs[i]) EXCEPT !.isValid = FALSE]
     ELSE recs[i]]

purgeMarked(recs, currentMillis) ==
  [i \in 1..Len(recs) |->
     IF recs[i].isValid /\ isRecordExpired(recs[i].expiryMillis, currentMillis)
     THEN [freeRecord(recs[i]) EXCEPT !.isValid = FALSE]
     ELSE recs[i]]

\* a purge that marks the expired records and leaves them where they are
purgeInline_notCompacted(S, currentMillis) ==
  WithRecords(S, purgeMarked(Deref(S.records), currentMillis))

purgeInline(S, currentMillis) ==
  compactRecords(WithRecords(S, purgeMarked(Deref(S.records), currentMillis)))

purgeExpiredRecords(S, currentMillis) ==
  IF ~S.tableExists THEN Return(S, "void", NULLPTR)
  ELSE Return(purgeInline(S, currentMillis), "void", NULLPTR)

(***************************************************************************)
(* getFieldValue: the IMDBSelectResult of one field.  A null string is     *)
(* handed back as the empty string.                                        *)
(***************************************************************************)
getFieldValue(field, type) ==
  [type |-> type, hasValue |-> TRUE,
   value |-> IF type = "IMDB_TYPE_STRING"
             THEN (IF field # NULLPTR
                   THEN SubSeq(Deref(field), 1,
                               IF strlen(Deref(field)) > IMDB_MAX_STRING_LENGTH
                               THEN IMDB_MAX_STRING_LENGTH ELSE strlen(Deref(field)))
                   ELSE <<>>)
             ELSE field]

NoValue == [hasValue |-> FALSE]

\* a scan that stops at expired records too
matchingFrom_expiredToo(S, whereIdx, whereValue, currentMillis, i) ==
  SelectSeq([k \in 1..S.recordCount |-> k - 1],
            LAMBDA k : /\ k >= i
                       /\ Deref(S.records)[k + 1].isValid
                       /\ Matches(S, Deref(S.records)[k + 1], whereIdx, whereValue))

\* the slots (0-based) a scan with this where clause stops at, in store order
RECURSIVE matchingFrom(_, _, _, _, _)
matchingFrom(S, whereIdx, whereValue, currentMillis, i) ==
  IF i >= S.recordCount THEN <<>>
  ELSE LET rest == matchingFrom(S, whereIdx, whereValue, currentMillis, i + 1)
           r    == Deref(S.records)[i + 1]
       IN  IF r.isValid /\ ~isRecordExpired(r.expiryMillis, currentMillis)
              /\ Matches(S, r, whereIdx, whereValue)
           THEN <<i>> \o rest ELSE rest

\* the slots (0-based) that are valid and not expired, in store order
RECURSIVE liveFrom(_, _, _)
liveFrom(S, currentMillis, i) ==
  IF i >= S.recordCount THEN <<>>
  ELSE LET rest == liveFrom(S, currentMillis, i + 1)
           r    == Deref(S.records)[i + 1]
       IN  IF r.isValid /\ ~isRecordExpired(r.expiryMillis, currentMillis)
           THEN <<i>> \o rest ELSE rest

\* a row of the queried column alone
Row_whereColumn(S, i) ==
  <<getFieldValue(Field(Deref(S.records)[i + 1], 0), Column(S, 0).type)>>

\* one result row: every column of the record in slot i
Row(S, i) ==
  [col \in 1..S.columnCount |->
     getFieldValue(Field(Deref(S.records)[i + 1], col - 1), Column(S, col - 1).type)]

(***************************************************************************)
(* select: the column of the first match.                                  *)
(***************************************************************************)
select(S, column, whereColumn, whereValue, result, currentMillis) ==
  IF ~S.tableExists THEN Return(S, "IMDB_ERROR_NO_TABLE", result)
  ELSE IF column = NULLPTR \/ whereColumn = NULLPTR \/ whereValue = NULLPTR
          \/ result = NULLPTR
  THEN Return(S, "IMDB_ERROR_INVALID_VALUE", result)
  ELSE
    LET colIdx   == findColumnIndex(S, Deref(column))
        whereIdx == findColumnIndex(S, Deref(whereColumn))
    IN  IF colIdx < 0 \/ whereIdx < 0
        THEN Return(S, "IMDB_ERROR_COLUMN_NOT_FOUND", result)
        ELSE
          LET m == matchingFrom(S, whereIdx, whereValue, currentMillis, 0)
          IN  IF m = <<>> THEN Return(S, "IMDB_ERROR_NO_RECORDS", Ptr(NoValue))
              ELSE Return(S, "IMDB_OK",
                          Ptr(getFieldValue(Field(Deref(S.records)[m[1] + 1], colIdx),
                                            Column(S, colIdx).type)))

(***************************************************************************)
(* selectAll: a counting pass, the allocation, a filling pass.             *)
(* results stands for the two out pointers, results and resultCount.       *)
(* Fault: <<"results", 0>>.  Every expiry test reads the clock:            *)
(* currentMillis is its reading during the counting pass, fillMillis its   *)
(* reading during the filling pass.  out is [results, resultCount,         *)
(* filled]: the buffer of the rows allocated, those the filling pass did   *)
(* not write being Uninitialised, and the number of rows the filling pass  *)
(* wrote, which is past the end of the buffer when it exceeds the rows     *)
(* allocated.                                                              *)
(***************************************************************************)
Uninitialised == <<"uninitialised">>

\* the buffer of `allocated` rows after the filling pass stopped at slots
Filled(S, slots, allocated) ==
  [k \in 1..allocated |-> IF k <= Len(slots) THEN Row(S, slots[k]) ELSE Uninitialised]

selectAll(S, whereColumn, whereValue, results, fault, currentMillis, fillMillis) ==
  IF ~S.tableExists THEN Return(S, "IMDB_ERROR_NO_TABLE", NULLPTR)
  ELSE IF whereColumn = NULLPTR \/ whereValue = NULLPTR \/ results = NULLPTR
  THEN Return(S, "IMDB_ERROR_INVALID_VALUE", NULLPTR)
  ELSE
    LET whereIdx == findColumnIndex(S, Deref(whereColumn))
    IN  IF whereIdx < 0 THEN Return(S, "IMDB_ERROR_COLUMN_NOT_FOUND", NULLPTR)
        ELSE
          LET matches == Len(matchingFrom(S, whereIdx, whereValue, currentMillis, 0))
              m       == matchingFrom(S, whereIdx, whereValue, fillMillis, 0)
          IN  IF matches = 0
              THEN Return(S, "IMDB_ERROR_NO_RECORDS",
                          Ptr([results |-> NULLPTR, resultCount |-> 0, filled |-> 0]))
              ELSE IF ~Allocates(fault, <<"results", 0>>)
              THEN Return(S, "IMDB_ERROR_OUT_OF_MEMORY", NULLPTR)
              ELSE Return(S, "IMDB_OK",
                          Ptr([results |-> Ptr(Filled(S, m, matches)),
                               resultCount |-> matches, filled |-> Len(m)]))

(***************************************************************************)
(* count, countWhere.                                                      *)
(***************************************************************************)
\* a count of the slots in use
count_slots(S, currentMillis) ==
  IF ~S.tableExists THEN Return(S, "int32_t", 0)
  ELSE Return(S, "int32_t", S.recordCount)

\* a count that purges the expired records it passes over
count_purging(S, currentMillis) ==
  IF ~S.tableExists THEN Return(S, "int32_t", 0)
  ELSE Return(purgeInline(S, currentMillis), "int32_t",
              Len(liveFrom(S, currentMillis, 0)))

count(S, currentMillis) ==
  IF ~S.tableExists THEN Return(S, "int32_t", 0)
  ELSE Return(S, "int32_t", Len(liveFrom(S, currentMillis, 0)))

countWhere(S, whereColumn, whereValue, currentMillis) ==
  IF ~S.tableExists THEN Return(S, "int32_t", 0)
  ELSE IF whereColumn = NULLPTR \/ whereValue = NULLPTR
  THEN Return(S, "int32_t", 0)
  ELSE
    LET whereIdx == findColumnIndex(S, Deref(whereColumn))
    IN  IF whereIdx < 0 THEN Return(S, "int32_t", 0)
        ELSE Return(S, "int32_t",
                    Len(matchingFrom(S, whereIdx, whereValue, currentMillis, 0)))

(***************************************************************************)
(* top: the first n live records in store order.  Fault and clock readings *)
(* as selectAll.  malloc of a negative number of rows, a size near 2^32,   *)
(* returns no buffer; malloc of no row returns one or none, as the fault   *)
(* says.  The filling pass stops at returnCount rows.                      *)
(***************************************************************************)
\* the first n slots by the id they hold instead of their place in the store
top_byValue(S, n, results, fault, currentMillis, fillMillis) ==
  IF ~S.tableExists THEN Return(S, "IMDB_ERROR_NO_TABLE", NULLPTR)
  ELSE IF results = NULLPTR THEN Return(S, "IMDB_ERROR_INVALID_VALUE", NULLPTR)
  ELSE
    LET live   == liveFrom(S, currentMillis, 0)
        id(k)  == Field(Deref(S.records)[live[k] + 1], 0)
        rank(k) == Cardinality({j \in 1..Len(live) :
                                  id(j) < id(k) \/ (id(j) = id(k) /\ j < k)})
        sorted == [r \in 1..Len(live) |->
                     live[CHOOSE k \in 1..Len(live) : rank(k) = r - 1]]
        returnCount == IF n < Len(live) THEN n ELSE Len(live)
    IN  IF Len(live) = 0
        THEN Return(S, "IMDB_ERROR_NO_RECORDS",
                    Ptr([results |-> NULLPTR, resultCount |-> 0, filled |-> 0]))
        ELSE IF returnCount < 0 \/ ~Allocates(fault, <<"results", 0>>)
        THEN Return(S, "IMDB_ERROR_OUT_OF_MEMORY", NULLPTR)
        ELSE Return(S, "IMDB_OK",
                    Ptr([results |-> Ptr(Filled(S, SubSeq(sorted, 1, returnCount),
                                                returnCount)),
                         resultCount |-> returnCount, filled |-> returnCount]))

top(S, n, results, fault, currentMillis, fillMillis) ==
  IF ~S.tableExists THEN Return(S, "IMDB_ERROR_NO_TABLE", NULLPTR)
  ELSE IF results = NULLPTR THEN Return(S, "IMDB_ERROR_INVALID_VALUE", NULLPTR)
  ELSE
    LET validCount  == Len(liveFrom(S, currentMillis, 0))
        returnCount == IF n < validCount THEN n ELSE validCount
        live        == liveFrom(S, fillMillis, 0)
        written     == IF Len(live) < returnCount THEN Len(live) ELSE returnCount
    IN  IF validCount = 0
        THEN Return(S, "IMDB_ERROR_NO_RECORDS",
                    Ptr([results |-> NULLPTR, resultCount |-> 0, filled |-> 0]))
        ELSE IF returnCount < 0 \/ ~Allocates(fault, <<"results", 0>>)
        THEN Return(S, "IMDB_ERROR_OUT_OF_MEMORY", NULLPTR)
        ELSE Return(S, "IMDB_OK",
                    Ptr([results |-> Ptr(Filled(S, SubSeq(live, 1, written),
                                                returnCount)),
                         resultCount |-> returnCount, filled |-> written]))

(***************************************************************************)
(* getRecordCount.                                                         *)
(***************************************************************************)
getRecordCount(S) == Return(S, "int", S.recordCount)

(***************************************************************************)
(* int32_t.  An Int32 field is an integer of the model; an Epoch field is  *)
(* a 32-bit word, read through an int32_t pointer by the arithmetic and by *)
(* min and max.                                                            *)
(***************************************************************************)
ToWord(x) == <<(x \div Half) % Half, x % Half>>

FromWord(w) ==
  IF w[1] < 32768 THEN w[1] * Half + w[2] ELSE (w[1] - Half) * Half + w[2]

\* a * b modulo 2^32, by 8-bit pieces of b
U32Mul(a, b) ==
  LET b0 == b[2] % 256
      b1 == b[2] \div 256
      p0 == a[2] * b0
      p1 == a[2] * b1
      lo == p0 + (p1 % 256) * 256
      hi == (p1 \div 256) + (lo \div Half) + a[1] * b0
            + ((a[1] * b1) % 256) * 256
            + a[2] * (b[1] % 256) + ((a[2] * (b[1] \div 256)) % 256) * 256
  IN  <<hi % Half, lo % Half>>

INT32_MAX == 2147483647

INT32_MIN == -INT32_MAX - 1

\* the quotient and remainder of C, which truncate toward zero; b is not 0
\* and the pair is not INT32_MIN, -1
Abs(x) == IF x < 0 THEN -x ELSE x

RECURSIVE TruncDiv(_, _)
TruncDiv(a, b) ==
  IF b = INT32_MIN THEN (IF a = INT32_MIN THEN 1 ELSE 0)
  ELSE IF b < 0 THEN -TruncDiv(a, -b)
  ELSE IF a < 0 /\ a % b # 0 THEN (a \div b) + 1
  ELSE a \div b

TruncMod(a, b) == a - TruncDiv(a, b) * b

\* the arithmetic of int32_t whose result is outside int32_t, or has none:
\* the behaviour of the program is undefined
MulOverflows(a, b) ==
  IF a \in {0, 1} \/ b \in {0, 1} THEN FALSE
  ELSE IF a = -1 THEN b = INT32_MIN
  ELSE IF b = -1 THEN a = INT32_MIN
  ELSE IF a = INT32_MIN \/ b = INT32_MIN THEN TRUE
  ELSE IF (a > 0) = (b > 0) THEN Abs(a) > INT32_MAX \div Abs(b)
  ELSE Abs(a) > (INT32_MAX \div Abs(b))
                + (IF INT32_MAX % Abs(b) = Abs(b) - 1 THEN 1 ELSE 0)

Undefined(value, operation, operand) ==
  CASE operation = "IMDB_MATH_ADD" ->
         \/ operand > 0 /\ value > INT32_MAX - operand
         \/ operand < 0 /\ value < INT32_MIN - operand
    [] operation = "IMDB_MATH_SUBTRACT" ->
         \/ operand < 0 /\ value > INT32_MAX + operand
         \/ operand > 0 /\ value < INT32_MIN + operand
    [] operation = "IMDB_MATH_MULTIPLY" -> MulOverflows(value, operand)
    [] operation \in {"IMDB_MATH_DIVIDE", "IMDB_MATH_MODULO"} ->
         value = INT32_MIN /\ operand = -1

\* what a build makes of an undefined operation: the two's complement
\* result of the instruction, or a trap that ends the program
Builds == {"wraps", "traps"}

\* the two's complement result, modulo 2^32; operand is not 0 for divide
\* and modulo
Wrapping(value, operation, operand) ==
  CASE operation = "IMDB_MATH_ADD" ->
         FromWord(U32Add(ToWord(value), ToWord(operand)))
    [] operation = "IMDB_MATH_SUBTRACT" ->
         FromWord(U32Sub(ToWord(value), ToWord(operand)))
    [] operation = "IMDB_MATH_MULTIPLY" ->
         FromWord(U32Mul(ToWord(value), ToWord(operand)))
    [] operation = "IMDB_MATH_DIVIDE" ->
         IF Undefined(value, operation, operand) THEN INT32_MIN
         ELSE TruncDiv(value, operand)
    [] operation = "IMDB_MATH_MODULO" ->
         IF Undefined(value, operation, operand) THEN 0
         ELSE TruncMod(value, operand)

\* *valuePtr op= operand on an int32_t; operand is not 0 for divide and
\* modulo.  <<"trap">> when the operation is undefined and the build traps.
Int32Math(value, operation, operand, build) ==
  IF Undefined(value, operation, operand) /\ build = "traps" THEN <<"trap">>
  ELSE <<"value", Wrapping(value, operation, operand)>>

(***************************************************************************)
(* float.  A float of the model is <<"nan", 0>>, <<"num", p>> for the      *)
(* integer p or <<"num", p, q>> for p / q in lowest terms with q > 1; the   *)
(* arithmetic is that of the rationals, which is the arithmetic of float   *)
(* on the integers below 2^24 that the inputs are drawn from, but for the  *)
(* rounding of a quotient.                                                 *)
(***************************************************************************)
RECURSIVE GCD(_, _)
GCD(a, b) == IF b = 0 THEN a ELSE GCD(b, a % b)

Numer(f) == f[2]

Denom(f) == IF Len(f) = 3 THEN f[3] ELSE 1

Frac(p, q) ==
  LET n == IF q < 0 THEN -p ELSE p
      d == Abs(q)
      g == GCD(Abs(n), d)
  IN  IF d \div g = 1 THEN <<"num", n \div g>> ELSE <<"num", n \div g, d \div g>>

\* x - ((int)(x / y)) * y, y not 0
floatModulo(x, y) ==
  Frac(Numer(x) - TruncDiv(Numer(x), Denom(x) * y) * y * Denom(x), Denom(x))

\* *valuePtr op= (float)operand; operand is not 0 for divide and modulo
FloatMath(value, operation, operand) ==
  IF value[1] = "nan" THEN value
  ELSE CASE operation = "IMDB_MATH_ADD" ->
              Frac(Numer(value) + operand * Denom(value), Denom(value))
         [] operation = "IMDB_MATH_SUBTRACT" ->
              Frac(Numer(value) - operand * Denom(value), Denom(value))
         [] operation = "IMDB_MATH_MULTIPLY" ->
              Frac(Numer(value) * operand, Denom(value))
         [] operation = "IMDB_MATH_DIVIDE" ->
              Frac(Numer(value), Denom(value) * operand)
         [] operation = "IMDB_MATH_MODULO" -> floatModulo(value, operand)

(***************************************************************************)
(* updateWithMath.  mathStep is the switch on one matching record: the new *)
(* value of its set-column, <<"invalid">> for a division by 0, <<"trap">>. *)
(***************************************************************************)
\* a switch without the test of the operand: the row is kept as it is
mathStep_zeroUnchecked(setType, old, operation, operand, build) ==
  IF operation \in {"IMDB_MATH_DIVIDE", "IMDB_MATH_MODULO"} /\ operand = 0
  THEN <<"value", old>>
  ELSE IF setType = "IMDB_TYPE_FLOAT"
  THEN <<"value", FloatMath(old, operation, operand)>>
  ELSE IF setType = "IMDB_TYPE_INT32"
  THEN Int32Math(old, operation, operand, build)
  ELSE LET r == Int32Math(FromWord(old), operation, operand, build)
       IN  IF r[1] = "value" THEN <<"value", ToWord(r[2])>> ELSE r

\* a switch that applies the operation a second time to its result
mathStep_twice(setType, old, operation, operand, build) ==
  IF operation \in {"IMDB_MATH_DIVIDE", "IMDB_MATH_MODULO"} /\ operand = 0
  THEN <<"invalid">>
  ELSE IF setType = "IMDB_TYPE_FLOAT"
  THEN <<"value", FloatMath(FloatMath(old, operation, operand), operation, operand)>>
  ELSE IF setType = "IMDB_TYPE_INT32"
  THEN <<"value", Wrapping(Wrapping(old, operation, operand), operation, operand)>>
  ELSE <<"value", ToWord(Wrapping(Wrapping(FromWord(old), operation, operand),
                                  operation, operand))>>

mathStep(setType, old, operation, operand, build) ==
  IF operation \in {"IMDB_MATH_DIVIDE", "IMDB_MATH_MODULO"} /\ operand = 0
  THEN <<"invalid">>
  ELSE IF setType = "IMDB_TYPE_FLOAT"
  THEN <<"value", FloatMath(old, operation, operand)>>
  ELSE IF setType = "IMDB_TYPE_INT32"
  THEN Int32Math(old, operation, operand, build)
  ELSE LET r == Int32Math(FromWord(old), operation, operand, build)
       IN  IF r[1] = "value" THEN <<"value", ToWord(r[2])>> ELSE r

RECURSIVE mathLoop(_, _, _, _, _, _)
mathLoop(S, q, currentMillis, i, recs, updated) ==
  IF i >= S.recordCount
  THEN Return(WithRecords(S, recs),
              IF updated THEN "IMDB_OK" ELSE "IMDB_ERROR_NO_RECORDS", NULLPTR)
  ELSE IF Skipped(recs[i + 1], currentMillis)
  THEN mathLoop(S, q, currentMillis, i + 1, recs, updated)
  ELSE IF Matches(S, recs[i + 1], q.whereIdx, q.whereValue)
  THEN
    LET new == mathStep(Column(S, q.setIdx).type, Field(recs[i + 1], q.setIdx),
                        q.operation, q.operand, q.build)
    IN  IF new[1] = "invalid"
        THEN Return(WithRecords(S, recs), "IMDB_ERROR_INVALID_OPERATION", NULLPTR)
        ELSE IF new[1] = "trap"
        THEN [Return(WithRecords(S, recs), "trap", NULLPTR) EXCEPT !.unlocked = FALSE]
        ELSE mathLoop(S, q, currentMillis, i + 1,
                      [recs EXCEPT ![i + 1] =
                         WithField(recs[i + 1], q.setIdx, new[2])],
                      TRUE)
  ELSE mathLoop(S, q, currentMillis, i + 1, recs, updated)

updateWithMath(S, whereColumn, whereValue, setColumn, operation, operand, currentMillis, build) ==
  IF ~S.tableExists THEN Return(S, "IMDB_ERROR_NO_TABLE", NULLPTR)
  ELSE IF whereColumn = NULLPTR \/ whereValue = NULLPTR \/ setColumn = NULLPTR
  THEN Return(S, "IMDB_ERROR_INVALID_VALUE", NULLPTR)
  ELSE
    LET whereIdx == findColumnIndex(S, Deref(whereColumn))
        setIdx   == findColumnIndex(S, Deref(setColumn))
    IN  IF whereIdx < 0 \/ setIdx < 0
        THEN Return(S, "IMDB_ERROR_COLUMN_NOT_FOUND", NULLPTR)
        ELSE IF Column(S, setIdx).type \notin
                  {"IMDB_TYPE_INT32", "IMDB_TYPE_EPOCH", "IMDB_TYPE_FLOAT"}
        THEN Return(S, "IMDB_ERROR_INVALID_TYPE", NULLPTR)
        ELSE mathLoop(S, [whereIdx |-> whereIdx, whereValue |-> whereValue,
                          setIdx |-> setIdx, operation |-> operation,
                          operand |-> operand, build |-> build],
                      currentMillis, 0, Deref(S.records), FALSE)

(***************************************************************************)
(* min, max: numeric columns only.  Int32 and Epoch values are compared as *)
(* int32_t, floats with <, > (false against NaN); the first live record is *)
(* taken whatever it holds.                                                *)
(***************************************************************************)
AsInt32(field, type) ==
  IF type = "IMDB_TYPE_INT32" THEN field ELSE FromWord(field)

FromInt32(val, type) ==
  IF type = "IMDB_TYPE_INT32" THEN val ELSE ToWord(val)

Below(a, b, type) ==
  IF type = "IMDB_TYPE_FLOAT" THEN FloatCompare(a, b, "IMDB_OP_LESS") ELSE a < b

RECURSIVE extremeLoop(_, _, _, _, _, _, _)
extremeLoop(S, colIdx, type, currentMillis, i, best, wantMin) ==
  IF i >= S.recordCount THEN best
  ELSE IF Skipped(Deref(S.records)[i + 1], currentMillis)
  THEN extremeLoop(S, colIdx, type, currentMillis, i + 1, best, wantMin)
  ELSE
    LET f   == Field(Deref(S.records)[i + 1], colIdx)
        val == IF type = "IMDB_TYPE_FLOAT" THEN f ELSE AsInt32(f, type)
        take == \/ best = NULLPTR
                \/ IF wantMin THEN Below(val, Deref(best), type)
                   ELSE Below(Deref(best), val, type)
    IN  extremeLoop(S, colIdx, type, currentMillis, i + 1,
                    IF take THEN Ptr(val) ELSE best, wantMin)

extreme(S, column, result, currentMillis, wantMin) ==
  IF ~S.tableExists THEN Return(S, "IMDB_ERROR_NO_TABLE", result)
  ELSE IF column = NULLPTR \/ result = NULLPTR
  THEN Return(S, "IMDB_ERROR_INVALID_VALUE", result)
  ELSE
    LET colIdx == findColumnIndex(S, Deref(column))
    IN  IF colIdx < 0 THEN Return(S, "IMDB_ERROR_COLUMN_NOT_FOUND", result)
        ELSE
          LET type == Column(S, colIdx).type
          IN  IF type \notin {"IMDB_TYPE_INT32", "IMDB_TYPE_EPOCH", "IMDB_TYPE_FLOAT"}
              THEN Return(S, "IMDB_ERROR_INVALID_TYPE", result)
              ELSE
                LET best == extremeLoop(S, colIdx, type, currentMillis, 0,
                                        NULLPTR, wantMin)
                IN  IF best = NULLPTR
                    THEN Return(S, "IMDB_ERROR_NO_RECORDS", Ptr(NoValue))
                    ELSE Return(S, "IMDB_OK",
                                Ptr([type |-> type, hasValue |-> TRUE,
                                     value |-> IF type = "IMDB_TYPE_FLOAT"
                                               THEN Deref(best)
                                               ELSE FromInt32(Deref(best), type)]))

min(S, column, result, currentMillis) ==
  extreme(S, column, result, currentMillis, TRUE)

max(S, column, result, currentMillis) ==
  extreme(S, column, result, currentMillis, FALSE)

(***************************************************************************)
(* getMemoryUsage.                                                         *)
(***************************************************************************)
RECURSIVE stringBytes(_, _, _)
stringBytes(S, record, j) ==
  IF j >= S.columnCount THEN 0
  ELSE (IF Column(S, j).type = "IMDB_TYPE_STRING" /\ Field(record, j) # NULLPTR
        THEN strlen(Deref(Field(record, j))) + 1 ELSE 0)
       + stringBytes(S, record, j + 1)

RECURSIVE recordBytes(_, _)
recordBytes(S, i) ==
  IF i >= S.recordCount THEN 0
  ELSE (IF Deref(S.records)[i + 1].fields # NULLPTR
        THEN SizeofFieldValue * S.columnCount
             + stringBytes(S, Deref(S.records)[i + 1], 0)
        ELSE 0)
       + recordBytes(S, i + 1)

getMemoryUsage(S) ==
  Return(S, "size_t",
         SizeofColumn * S.columnCount + SizeofRecord * S.recordCapacity
         + (IF S.columns # NULLPTR /\ S.records # NULLPTR
            THEN recordBytes(S, 0) ELSE 0))

(***************************************************************************)
(* The snapshot.  files is [file, tmp]: what is stored under the filename  *)
(* and under filename.tmp, each NULLPTR or Ptr of the content.  A string   *)
(* field is written as its length byte and its bytes (a null string as     *)
(* length 0), a bool as one byte 0 or 1, the other types as their bytes.   *)
(***************************************************************************)
EncodeField(field, type) ==
  CASE type = "IMDB_TYPE_STRING" ->
         IF field = NULLPTR THEN <<>> ELSE Truncated(Deref(field))
    [] type = "IMDB_TYPE_BOOL" -> IF field THEN 1 ELSE 0
    [] OTHER -> field

DecodeField(bytes, type) ==
  CASE type = "IMDB_TYPE_STRING" ->
         IF Len(bytes) > 0 THEN Ptr(bytes) ELSE NULLPTR
    [] type = "IMDB_TYPE_BOOL" -> bytes # 0
    [] OTHER -> bytes

Snapshot(S, saveMillis) ==
  [columnCount |-> S.columnCount,
   recordCount |-> S.recordCount % (UINT16_MAX + 1),
   saveMillis  |-> saveMillis,
   columns     |-> Deref(S.columns),
   records     |->
     [i \in 1..S.recordCount |->
        [isValid      |-> IF Deref(S.records)[i].isValid THEN 1 ELSE 0,
         expiryMillis |-> Deref(S.records)[i].expiryMillis,
         fields       |->
           [j \in 1..S.columnCount |->
              EncodeField(Field(Deref(S.records)[i], j - 1),
                          Column(S, j - 1).type)]]]]

(***************************************************************************)
(* saveToFile.  Faults: <<"open", 0>>, <<"write", 0>> (any of the writes), *)
(* <<"rename", 0>>.  out is the files as the call leaves them.             *)
(***************************************************************************)
saveToFile(S, filename, files, fault, currentMillis) ==
  IF ~S.tableExists THEN Return(S, "IMDB_ERROR_NO_TABLE", files)
  ELSE IF filename = NULLPTR THEN Return(S, "IMDB_ERROR_INVALID_VALUE", files)
  ELSE
    LET S1 == purgeInline(S, currentMillis)
    IN  IF S1.recordCount > UINT16_MAX
        THEN Return(S1, "IMDB_ERROR_INVALID_OPERATION", files)
        ELSE IF fault = <<"open", 0>>
        THEN Return(S1, "IMDB_ERROR_FILE_OPEN", files)
        ELSE IF fault = <<"write", 0>>
        THEN Return(S1, "IMDB_ERROR_FILE_WRITE", [files EXCEPT !.tmp = NULLPTR])
        ELSE IF fault = <<"rename", 0>>
        THEN Return(S1, "IMDB_ERROR_FILE_WRITE",
                    [file |-> NULLPTR, tmp |-> NULLPTR])
        ELSE Return(S1, "IMDB_OK",
                    [file |-> Ptr(Snapshot(S1, currentMillis)), tmp |-> NULLPTR])

(***************************************************************************)
(* loadFromFile.  Faults: <<"open", 0>>; <<"header", 0>> (a short read or  *)
(* a wrong magic or version); <<"heap", 0>>; <<"columns", 0>>;             *)
(* <<"schema", i>>; <<"heap2", 0>>; <<"records", 0>>; and for record i     *)
(* <<"recValid", i>>, <<"recExpiry", i>>, <<"recHeap", i>>,                *)
(* <<"recFields", i>>, <<"recRead", i>> (a field that cannot be read).     *)
(***************************************************************************)
\* a cleanup that leaves the table marked as existing
Reset_tableKept(S) ==
  [S EXCEPT !.records = NULLPTR, !.columns = NULLPTR, !.recordCount = 0,
            !.recordCapacity = 0]

Reset(S) ==
  [S EXCEPT !.records = NULLPTR, !.columns = NULLPTR, !.recordCount = 0,
            !.recordCapacity = 0, !.tableExists = FALSE]

RECURSIVE schemaFault(_, _, _)
schemaFault(fault, columnCount, i) ==
  IF i >= columnCount THEN FALSE
  ELSE fault = <<"schema", i>> \/ schemaFault(fault, columnCount, i + 1)

RECURSIVE loadRecords(_, _, _, _, _, _, _)
loadRecords(S, content, fault, currentMillis, i, hist, recs) ==
  IF i >= content.recordCount
  THEN Return([S EXCEPT !.records = Ptr(recs), !.recordCount = Len(recs)],
              "IMDB_OK", NULLPTR)
  ELSE IF fault = <<"recValid", i>> \/ fault = <<"recExpiry", i>>
  THEN Return(Reset(S), "IMDB_ERROR_FILE_READ", NULLPTR)
  ELSE IF ~checkHeapLimit(FreeHeap(fault, <<"recHeap", i>>))
  THEN Return(Reset(S), "IMDB_ERROR_HEAP_LIMIT", NULLPTR)
  ELSE IF ~Allocates(fault, <<"recFields", i>>)
  THEN Return(Reset(S), "IMDB_ERROR_OUT_OF_MEMORY", NULLPTR)
  ELSE IF fault = <<"recRead", i>>
  THEN Return(Reset(S), "IMDB_ERROR_FILE_READ", NULLPTR)
  ELSE
    LET saved  == content.records[i + 1]
        remainingMillis == U32Sub(saved.expiryMillis, content.saveMillis)
        record ==
          [fields |-> Ptr([j \in 1..S.columnCount |->
                             DecodeField(saved.fields[j], Column(S, j - 1).type)]),
           expiryMillis |->
             IF saved.expiryMillis = U32Zero THEN U32Zero
             ELSE U32Add(currentMillis, remainingMillis),
           isValid |-> saved.isValid # 0,
           serial |-> hist.serial + i,
           ttl |-> IF saved.expiryMillis = U32Zero THEN U32Zero
                   ELSE remainingMillis,
           due |-> IF saved.expiryMillis = U32Zero THEN <<0, 0>>
                   ELSE TimeAdd(hist.now, remainingMillis)]
    IN  loadRecords(S, content, fault, currentMillis, i + 1, hist,
                    Append(recs, record))

loadFromFile(S, filename, files, fault, currentMillis, hist) ==
  IF filename = NULLPTR THEN Return(S, "IMDB_ERROR_INVALID_VALUE", NULLPTR)
  ELSE IF S.tableExists THEN Return(S, "IMDB_ERROR_TABLE_EXISTS", NULLPTR)
  ELSE IF files.file = NULLPTR \/ fault = <<"open", 0>>
  THEN Return(S, "IMDB_ERROR_FILE_OPEN", NULLPTR)
  ELSE IF fault = <<"header", 0>>
  THEN Return(S, "IMDB_ERROR_CORRUPT_FILE", NULLPTR)
  ELSE IF ~checkHeapLimit(FreeHeap(fault, <<"heap", 0>>))
  THEN Return(S, "IMDB_ERROR_HEAP_LIMIT", NULLPTR)
  ELSE IF ~Allocates(fault, <<"columns", 0>>)
  THEN Return([S EXCEPT !.columns = NULLPTR], "IMDB_ERROR_OUT_OF_MEMORY", NULLPTR)
  ELSE
    LET content == Deref(files.file)
    IN  IF schemaFault(fault, content.columnCount, 0)
        THEN Return([S EXCEPT !.columns = NULLPTR], "IMDB_ERROR_FILE_READ", NULLPTR)
        ELSE
          LET S1 == [S EXCEPT !.columns = Ptr(content.columns),
                              !.columnCount = content.columnCount,
                              !.tableExists = TRUE]
          IN  IF ~checkHeapLimit(FreeHeap(fault, <<"heap2", 0>>))
              THEN Return([S1 EXCEPT !.columns = NULLPTR, !.tableExists = FALSE],
                          "IMDB_ERROR_HEAP_LIMIT", NULLPTR)
              ELSE
                LET S2 == [S1 EXCEPT !.recordCapacity =
                                       IF content.recordCount > InitialCapacity
                                       THEN content.recordCount
                                       ELSE InitialCapacity]
                IN  IF ~Allocates(fault, <<"records", 0>>)
                    THEN Return([S2 EXCEPT !.records = NULLPTR,
                                           !.columns = NULLPTR,
                                           !.tableExists = FALSE],
                                "IMDB_ERROR_OUT_OF_MEMORY", NULLPTR)
                    ELSE loadRecords(S2, content, fault, currentMillis, 0,
                                     hist, <<>>)

(***************************************************************************)
(* A caller's arguments.                                                   *)
(***************************************************************************)
Str(chars) == Ptr(Ptr(chars))

NullStr == Ptr(NULLPTR)

Schema ==
  <<[name |-> "id", type |-> "IMDB_TYPE_INT32"],
    [name |-> "name", type |-> "IMDB_TYPE_STRING"]>>

Row1 == Ptr(<<Ptr(1), Str(<<"a">>)>>)

Row2 == Ptr(<<Ptr(2), Str(<<"a">>)>>)

NoTTL == U32Zero

OneMs == U32(0, 1)

\* <<columns, columnCount, fault>>
CreateInputs ==
  {<<Ptr(Schema), 2, fault>> :
     fault \in {NoFault, <<"heap", 0>>, <<"columns", 0>>, <<"records", 0>>}}
  \cup {<<NULLPTR, 2, NoFault>>, <<Ptr(Schema), 0, NoFault>>, <<NULLPTR, 0, NoFault>>}

\* <<values, ttlMillis, fault>>
InsertInputs ==
  {<<Row1, NoTTL, NoFault>>, <<Row2, NoTTL, NoFault>>}
  \cup {<<Row1, NoTTL, fault>> :
          fault \in {<<"heap", 0>>, <<"fields", 0>>, <<"string", 1>>}}
  \cup {<<values, NoTTL, NoFault>> :
          values \in {NULLPTR, Ptr(<<NULLPTR, Str(<<"a">>)>>),
                      Ptr(<<Ptr(1), NULLPTR>>), Ptr(<<Ptr(1), NullStr>>)}}
  \cup {<<Row1, U32Add(IMDB_MAX_TTL_MS, OneMs), NoFault>>}

\* <<whereColumn, whereValue, setColumn, setValue, fault>>
UpdateInputs ==
  {<<Ptr("id"), Ptr(id), Ptr("name"), Str(<<"b">>), NoFault>> : id \in {1, 2}}
  \cup {<<Ptr("name"), Str(<<"a">>), Ptr("name"), setValue, fault>> :
          setValue \in {Str(<<"b">>), NullStr},
          fault \in {NoFault, <<"string", 0>>, <<"string", 1>>}}
  \cup {<<Ptr("name"), Str(<<"a">>), Ptr("id"), Ptr(2), NoFault>>,
        <<Ptr("name"), Str(<<"a">>), Ptr("name"), NULLPTR, NoFault>>,
        <<NULLPTR, Ptr(1), Ptr("name"), Str(<<"b">>), NoFault>>,
        <<Ptr("id"), Ptr(1), Ptr("other"), Ptr(2), NoFault>>}

\* <<whereColumn, whereValue, setColumn, operation, operand>>
MathInputs ==
  {<<Ptr("id"), Ptr(1), Ptr("id"), "IMDB_MATH_ADD", 1>>,
   <<Ptr("id"), Ptr(2), Ptr("id"), "IMDB_MATH_SUBTRACT", 1>>,
   <<Ptr("id"), Ptr(2), Ptr("id"), "IMDB_MATH_DIVIDE", 0>>,
   <<Ptr("name"), Str(<<"a">>), Ptr("id"), "IMDB_MATH_MULTIPLY", 1>>,
   <<Ptr("id"), Ptr(1), Ptr("name"), "IMDB_MATH_ADD", 1>>,
   <<Ptr("id"), NULLPTR, Ptr("id"), "IMDB_MATH_ADD", 1>>,
   <<Ptr("other"), Ptr(1), Ptr("id"), "IMDB_MATH_ADD", 1>>}

\* <<whereColumn, whereValue>>
Wheres ==
  {<<Ptr("id"), Ptr(1)>>, <<Ptr("id"), Ptr(2)>>, <<Ptr("name"), Str(<<"a">>)>>,
   <<NULLPTR, Ptr(1)>>, <<Ptr("other"), Ptr(1)>>}

Filenames == {NULLPTR, Ptr("/db.bin")}

ResultFaults == {NoFault, <<"results", 0>>}

\* <<filename, fault>>
SaveInputs ==
  {<<Ptr("/db.bin"), fault>> :
     fault \in {NoFault, <<"open", 0>>, <<"write", 0>>, <<"rename", 0>>}}
  \cup {<<NULLPTR, NoFault>>}

LoadInputs ==
  {<<Ptr("/db.bin"), fault>> :
     fault \in {NoFault, <<"open", 0>>, <<"header", 0>>, <<"heap", 0>>,
                <<"columns", 0>>, <<"schema", 0>>, <<"schema", 1>>,
                <<"heap2", 0>>, <<"records", 0>>}
               \cup {<<k, i>> : k \in {"recValid", "recExpiry", "recHeap",
                                       "recFields", "recRead"},
                                i \in {0, 1}}}
  \cup {<<NULLPTR, NoFault>>}

(***************************************************************************)
(* The buffers behind the records, by address.  A heap H is                *)
(*   cells   the buffers malloc has handed out, in the order of their      *)
(*           addresses 1, 2, ...: [content, live]; content is the array of *)
(*           IMDBFieldValue of a record (for a string field the address of *)
(*           its characters, 0 for a null pointer) or the characters of a  *)
(*           string; free clears live                                      *)
(*   array   the slots of _records written so far, those below the record  *)
(*           count and those behind it: [fields, expiryMillis, isValid],   *)
(*           fields an address or 0                                        *)
(*   count   _recordCount                                                  *)
(*   errors  what free was called on without it being a live cell          *)
(* malloc hands out no address a second time, so that a pointer to a freed *)
(* cell stays recognisable.  The Mem operators follow the same code as the *)
(* operators above, which keep the values and leave the addresses out.     *)
(***************************************************************************)
NoBuffers == [cells |-> <<>>, array |-> <<>>, count |-> 0, errors |-> {}]

\* a cell that was freed; what it held is not looked at again
Freed == [content |-> <<>>, live |-> FALSE]

malloc(H, content) ==
  [H EXCEPT !.cells = Append(@, [content |-> content, live |-> TRUE])]

free(H, address) ==
  IF address = 0 THEN H
  ELSE IF address \in 1..Len(H.cells) /\ H.cells[address].live
  THEN [H EXCEPT !.cells[address] = Freed]
  ELSE [H EXCEPT !.errors = @ \cup {<<"double free", address>>}]

\* record->fields[idx] of the field array at the address fields
FieldAt(H, fields, idx) == H.cells[fields].content[idx + 1]

\* the value a stored field stands for
StoredValue(H, type, field) ==
  IF type = "IMDB_TYPE_STRING"
  THEN (IF field = 0 THEN NULLPTR ELSE Ptr(H.cells[field].content))
  ELSE field

\* the string buffers of the columns from i up to end (not included) of a
\* field array are freed
RECURSIVE freeStrings(_, _, _, _, _)
freeStrings(H, S, fields, i, end) ==
  IF i >= end THEN H
  ELSE IF Column(S, i).type = "IMDB_TYPE_STRING" /\ FieldAt(H, fields, i) # 0
  THEN freeStrings(free(H, FieldAt(H, fields, i)), S, fields, i + 1, end)
  ELSE freeStrings(H, S, fields, i + 1, end)

\* freeRecord(&_records[slot - 1])
freeRecordMem(H, S, slot) ==
  LET fields == H.array[slot].fields
  IN  IF fields = 0 THEN H
      ELSE [free(IF S.columns # NULLPTR
                 THEN freeStrings(H, S, fields, 0, S.columnCount) ELSE H,
                 fields)
              EXCEPT !.array[slot].fields = 0]

RECURSIVE compactLoopMem(_, _, _)
compactLoopMem(H, readIndex, writeIndex) ==
  IF readIndex >= H.count THEN [H EXCEPT !.count = writeIndex]
  ELSE IF H.array[readIndex + 1].isValid
  THEN IF writeIndex # readIndex
       THEN compactLoopMem(
              [H EXCEPT !.array[writeIndex + 1] = H.array[readIndex + 1],
                        !.array[readIndex + 1] =
                           [H.array[readIndex + 1] EXCEPT !.fields = 0,
                                                          !.isValid = FALSE]],
              readIndex + 1, writeIndex + 1)
       ELSE compactLoopMem(H, readIndex + 1, writeIndex + 1)
  ELSE compactLoopMem(H, readIndex + 1, writeIndex)

compactRecordsMem(H) == compactLoopMem(H, 0, 0)

\* the copies of insert into the field array at the address fields; on an
\* error the strings copied so far and the field array are freed
RECURSIVE copyValuesMem(_, _, _, _, _, _)
copyValuesMem(H, S, values, fault, fields, i) ==
  IF i >= S.columnCount THEN [ok |-> TRUE, H |-> H]
  ELSE
    LET failed == [ok |-> FALSE,
                   H |-> free(freeStrings(H, S, fields, 0, i), fields)]
    IN  IF values[i + 1] = NULLPTR THEN failed
        ELSE IF Column(S, i).type = "IMDB_TYPE_STRING"
        THEN IF Deref(values[i + 1]) = NULLPTR
                \/ ~Allocates(fault, <<"string", i>>)
             THEN failed
             ELSE LET H1 == malloc(H, Truncated(Deref(Deref(values[i + 1]))))
                  IN  copyValuesMem(
                        [H1 EXCEPT !.cells[fields].content[i + 1] = Len(H1.cells)],
                        S, values, fault, fields, i + 1)
        ELSE copyValuesMem(
               [H EXCEPT !.cells[fields].content[i + 1] = Deref(values[i + 1])],
               S, values, fault, fields, i + 1)

\* record->fields = address, for the slot at _recordCount; what malloc left
\* in the rest of a slot that was never written is read by nothing
TakeSlot(H, address) ==
  IF H.count + 1 <= Len(H.array)
  THEN [H EXCEPT !.array[H.count + 1].fields = address]
  ELSE [H EXCEPT !.array = Append(@, [fields |-> address,
                                      expiryMillis |-> Uninitialised,
                                      isValid |-> Uninitialised])]

insertMem(H, S, values, ttlMillis, fault, currentMillis) ==
  IF ~S.tableExists \/ values = NULLPTR
     \/ ~checkHeapLimit(FreeHeap(fault, <<"heap", 0>>))
     \/ U32Greater(ttlMillis, IMDB_MAX_TTL_MS)
  THEN H
  ELSE IF S.recordCount >= S.recordCapacity
          /\ growRecordArray(S, fault).result # "IMDB_OK"
  THEN H
  ELSE IF ~Allocates(fault, <<"fields", 0>>) THEN TakeSlot(H, 0)
  ELSE
    LET H1 == malloc(H, [j \in 1..S.columnCount |-> 0])
        c  == copyValuesMem(TakeSlot(H1, Len(H1.cells)), S, Deref(values),
                            fault, Len(H1.cells), 0)
    IN  IF ~c.ok THEN c.H
        ELSE [c.H EXCEPT !.array[H.count + 1].expiryMillis =
                            IF U32Greater(ttlMillis, U32Zero)
                            THEN U32Add(currentMillis, ttlMillis) ELSE U32Zero,
                         !.array[H.count + 1].isValid = TRUE,
                         !.count = H.count + 1]

MatchesMem(H, S, slot, whereIdx, whereValue) ==
  compareValues(StoredValue(H, Column(S, whereIdx).type,
                            FieldAt(H, H.array[slot].fields, whereIdx)),
                whereValue, Column(S, whereIdx).type, "IMDB_OP_EQUAL")

\* an update that frees the old string and keeps the pointer to it
releaseString_pointerKept(H, fields, idx) == free(H, FieldAt(H, fields, idx))

\* free(fields[idx].stringValue); fields[idx].stringValue = nullptr;
releaseString(H, fields, idx) ==
  [free(H, FieldAt(H, fields, idx)) EXCEPT !.cells[fields].content[idx + 1] = 0]

RECURSIVE updateLoopMem(_, _, _, _, _, _)
updateLoopMem(H, S, q, fault, currentMillis, i) ==
  IF i >= H.count THEN H
  ELSE IF ~H.array[i + 1].isValid
          \/ isRecordExpired(H.array[i + 1].expiryMillis, currentMillis)
  THEN updateLoopMem(H, S, q, fault, currentMillis, i + 1)
  ELSE IF MatchesMem(H, S, i + 1, q.whereIdx, q.whereValue)
  THEN
    LET fields == H.array[i + 1].fields
        string == Column(S, q.setIdx).type = "IMDB_TYPE_STRING"
        H1 == IF string /\ FieldAt(H, fields, q.setIdx) # 0
              THEN releaseString(H, fields, q.setIdx) ELSE H
    IN  IF string /\ Deref(q.setValue) = NULLPTR THEN H1
        ELSE IF string /\ ~Allocates(fault, <<"string", i>>)
        THEN [H1 EXCEPT !.cells[fields].content[q.setIdx + 1] = 0]
        ELSE IF string
        THEN LET H2 == malloc(H1, Truncated(Deref(Deref(q.setValue))))
             IN  updateLoopMem(
                   [H2 EXCEPT !.cells[fields].content[q.setIdx + 1] = Len(H2.cells)],
                   S, q, fault, currentMillis, i + 1)
        ELSE updateLoopMem(
               [H1 EXCEPT !.cells[fields].content[q.setIdx + 1] = Deref(q.setValue)],
               S, q, fault, currentMillis, i + 1)
  ELSE updateLoopMem(H, S, q, fault, currentMillis, i + 1)

updateMem(H, S, whereColumn, whereValue, setColumn, setValue, fault, currentMillis) ==
  IF ~S.tableExists \/ whereColumn = NULLPTR \/ whereValue = NULLPTR
     \/ setColumn = NULLPTR \/ setValue = NULLPTR
  THEN H
  ELSE IF findColumnIndex(S, Deref(whereColumn)) < 0
          \/ findColumnIndex(S, Deref(setColumn)) < 0
  THEN H
  ELSE updateLoopMem(H, S,
                     [whereIdx |-> findColumnIndex(S, Deref(whereColumn)),
                      whereValue |-> whereValue,
                      setIdx |-> findColumnIndex(S, Deref(setColumn)),
                      setValue |-> setValue],
                     fault, currentMillis, 0)

RECURSIVE deleteLoopMem(_, _, _, _, _, _)
deleteLoopMem(H, S, whereIdx, whereValue, i, deleted) ==
  IF i >= H.count THEN [H |-> H, deleted |-> deleted]
  ELSE IF ~H.array[i + 1].isValid
  THEN deleteLoopMem(H, S, whereIdx, whereValue, i + 1, deleted)
  ELSE IF MatchesMem(H, S, i + 1, whereIdx, whereValue)
  THEN deleteLoopMem([freeRecordMem(H, S, i + 1) EXCEPT !.array[i + 1].isValid = FALSE],
                     S, whereIdx, whereValue, i + 1, TRUE)
  ELSE deleteLoopMem(H, S, whereIdx, whereValue, i + 1, deleted)

deleteRecordsMem(H, S, whereColumn, whereValue) ==
  IF ~S.tableExists \/ whereColumn = NULLPTR \/ whereValue = NULLPTR THEN H
  ELSE IF findColumnIndex(S, Deref(whereColumn)) < 0 THEN H
  ELSE LET d == deleteLoopMem(H, S, findColumnIndex(S, Deref(whereColumn)),
                              whereValue, 0, FALSE)
       IN  IF d.deleted THEN compactRecordsMem(d.H) ELSE H

RECURSIVE purgeLoopMem(_, _, _, _)
purgeLoopMem(H, S, currentMillis, i) ==
  IF i >= H.count THEN H
  ELSE IF H.array[i + 1].isValid
          /\ isRecordExpired(H.array[i + 1].expiryMillis, currentMillis)
  THEN purgeLoopMem([freeRecordMem(H, S, i + 1) EXCEPT !.array[i + 1].isValid = FALSE],
                    S, currentMillis, i + 1)
  ELSE purgeLoopMem(H, S, currentMillis, i + 1)

purgeExpiredRecordsMem(H, S, currentMillis) ==
  IF ~S.tableExists THEN H
  ELSE compactRecordsMem(purgeLoopMem(H, S, currentMillis, 0))

\* the purge of saveToFile; the writes that follow free and allocate nothing
saveToFileMem(H, S, filename, currentMillis) ==
  IF ~S.tableExists \/ filename = NULLPTR THEN H
  ELSE compactRecordsMem(purgeLoopMem(H, S, currentMillis, 0))

RECURSIVE dropLoopMem(_, _, _)
dropLoopMem(H, S, i) ==
  IF i >= H.count THEN H ELSE dropLoopMem(freeRecordMem(H, S, i + 1), S, i + 1)

\* the records below the record count are freed, then the array itself
dropTableMem(H, S) ==
  IF ~S.tableExists THEN H
  ELSE [dropLoopMem(H, S, 0) EXCEPT !.array = <<>>, !.count = 0]

(***************************************************************************)
(* One caller: a public operation runs from lock() to unlock() in one      *)
(* step.  Leave(r, name) is the state the call leaves and what it returns. *)
(***************************************************************************)
Leave(r, name) ==
  /\ _columns' = r.S.columns
  /\ _columnCount' = r.S.columnCount
  /\ _records' = r.S.records
  /\ _recordCount' = r.S.recordCount
  /\ _recordCapacity' = r.S.recordCapacity
  /\ _tableExists' = r.S.tableExists
  /\ last' = [op |-> name, result |-> r.result, out |-> r.out]

\* the history part of the next record: its stamp and the real time
RECURSIVE MaxSerial(_)
MaxSerial(recs) ==
  IF recs = <<>> THEN 0
  ELSE LET m == MaxSerial(Tail(recs))
       IN  IF Head(recs).serial > m THEN Head(recs).serial ELSE m

\* the record array as a sequence, empty without a table
Recs(p) == IF p = NULLPTR THEN <<>> ELSE Deref(p)

Stamped == IF _records = NULLPTR THEN 0 ELSE MaxSerial(Deref(_records))

History == [serial |-> Stamped + 1, now |-> now]

\* the bound of a model: at most maxRecords records, stamps up to maxStamp
InBounds(maxRecords, maxStamp) ==
  _recordCount <= maxRecords /\ Stamped <= maxStamp

CreateTable(columns, columnCount, fault) ==
  /\ Leave(createTable(Members, columns, columnCount, fault), "createTable")
  /\ UNCHANGED <<tasks, now, start, fs, ticks, heap>>

DropTable ==
  /\ Leave(dropTable(Members), "dropTable")
  /\ UNCHANGED <<tasks, now, start, fs, ticks, heap>>

Insert(values, ttlMillis, fault) ==
  LET r == insert(Members, values, ttlMillis, fault, millis, History)
  IN  /\ Leave(r, "insert")
      /\ UNCHANGED <<tasks, now, start, fs, ticks, heap>>

Update(whereColumn, whereValue, setColumn, setValue, fault) ==
  /\ Leave(update(Members, whereColumn, whereValue, setColumn, setValue, fault,
                  millis), "update")
  /\ UNCHANGED <<tasks, now, start, fs, ticks, heap>>

UpdateWithMath(whereColumn, whereValue, setColumn, operation, operand, build) ==
  /\ Leave(updateWithMath(Members, whereColumn, whereValue, setColumn, operation,
                          operand, millis, build), "updateWithMath")
  /\ UNCHANGED <<tasks, now, start, fs, ticks, heap>>

DeleteRecords(where) ==
  /\ Leave(deleteRecords(Members, where[1], where[2]), "deleteRecords")
  /\ UNCHANGED <<tasks, now, start, fs, ticks, heap>>

PurgeExpiredRecords ==
  /\ Leave(purgeExpiredRecords(Members, millis), "purgeExpiredRecords")
  /\ UNCHANGED <<tasks, now, start, fs, ticks, heap>>

Select(column, where, result) ==
  /\ Leave(select(Members, column, where[1], where[2], result, millis), "select")
  /\ UNCHANGED <<tasks, now, start, fs, ticks, heap>>

SelectAll(where, results, fault) ==
  /\ Leave(selectAll(Members, where[1], where[2], results, fault, millis, millis),
           "selectAll")
  /\ UNCHANGED <<tasks, now, start, fs, ticks, heap>>

Count ==
  /\ Leave(count(Members, millis), "count")
  /\ UNCHANGED <<tasks, now, start, fs, ticks, heap>>

CountWhere(where) ==
  /\ Leave(countWhere(Members, where[1], where[2], millis), "countWhere")
  /\ UNCHANGED <<tasks, now, start, fs, ticks, heap>>

Min(column, result) ==
  /\ Leave(min(Members, column, result, millis), "min")
  /\ UNCHANGED <<tasks, now, start, fs, ticks, heap>>

Max(column, result) ==
  /\ Leave(max(Members, column, result, millis), "max")
  /\ UNCHANGED <<tasks, now, start, fs, ticks, heap>>

Top(n, results, fault) ==
  /\ Leave(top(Members, n, results, fault, millis, millis), "top")
  /\ UNCHANGED <<tasks, now, start, fs, ticks, heap>>

GetRecordCount ==
  /\ Leave(getRecordCount(Members), "getRecordCount")
  /\ UNCHANGED <<tasks, now, start, fs, ticks, heap>>

GetMemoryUsage ==
  /\ Leave(getMemoryUsage(Members), "getMemoryUsage")
  /\ UNCHANGED <<tasks, now, start, fs, ticks, heap>>

SaveToFile(filename, fault) ==
  LET r == saveToFile(Members, filename, fs, fault, millis)
  IN  /\ Leave([r EXCEPT !.out = NULLPTR], "saveToFile")
      /\ fs' = r.out
      /\ UNCHANGED <<tasks, now, start, ticks, heap>>

LoadFromFile(filename, fault) ==
  LET r == loadFromFile(Members, filename, fs, fault, millis, History)
  IN  /\ Leave(r, "loadFromFile")
      /\ UNCHANGED <<tasks, now, start, fs, ticks, heap>>

\* selectAll and top with the clock advancing by delta between the pass that
\* counts and the pass that fills
SelectAllAcross(where, results, fault, delta) ==
  /\ ticks < MaxTicks
  /\ ticks' = ticks + 1
  /\ now' = TimeAdd(now, delta)
  /\ Leave(selectAll(Members, where[1], where[2], results, fault, millis,
                     U32Add(millis, delta)), "selectAll")
  /\ UNCHANGED <<tasks, start, fs, heap>>

TopAcross(n, results, fault, delta) ==
  /\ ticks < MaxTicks
  /\ ticks' = ticks + 1
  /\ now' = TimeAdd(now, delta)
  /\ Leave(top(Members, n, results, fault, millis, U32Add(millis, delta)), "top")
  /\ UNCHANGED <<tasks, start, fs, heap>>

\* the millisecond clock advances by delta
Tick(delta) ==
  /\ ticks < MaxTicks
  /\ ticks' = ticks + 1
  /\ now' = TimeAdd(now, delta)
  /\ last' = [op |-> "clock", result |-> "void", out |-> NULLPTR]
  /\ UNCHANGED <<store, tasks, start, fs, heap>>

\* the calls that free and allocate record buffers, with the addresses kept
MemInsert(values, ttlMillis, fault) ==
  /\ Leave(insert(Members, values, ttlMillis, fault, millis, History), "insert")
  /\ heap' = insertMem(heap, Members, values, ttlMillis, fault, millis)
  /\ UNCHANGED <<tasks, now, start, fs, ticks>>

MemUpdate(whereColumn, whereValue, setColumn, setValue, fault) ==
  /\ Leave(update(Members, whereColumn, whereValue, setColumn, setValue, fault,
                  millis), "update")
  /\ heap' = updateMem(heap, Members, whereColumn, whereValue, setColumn,
                       setValue, fault, millis)
  /\ UNCHANGED <<tasks, now, start, fs, ticks>>

MemDeleteRecords(where) ==
  /\ Leave(deleteRecords(Members, where[1], where[2]), "deleteRecords")
  /\ heap' = deleteRecordsMem(heap, Members, where[1], where[2])
  /\ UNCHANGED <<tasks, now, start, fs, ticks>>

MemPurgeExpiredRecords ==
  /\ Leave(purgeExpiredRecords(Members, millis), "purgeExpiredRecords")
  /\ heap' = purgeExpiredRecordsMem(heap, Members, millis)
  /\ UNCHANGED <<tasks, now, start, fs, ticks>>

MemSaveToFile(filename, fault) ==
  LET r == saveToFile(Members, filename, fs, fault, millis)
  IN  /\ Leave([r EXCEPT !.out = NULLPTR], "saveToFile")
      /\ fs' = r.out
      /\ heap' = saveToFileMem(heap, Members, filename, millis)
      /\ UNCHANGED <<tasks, now, start, ticks>>

MemDropTable ==
  /\ Leave(dropTable(Members), "dropTable")
  /\ heap' = dropTableMem(heap, Members)
  /\ UNCHANGED <<tasks, now, start, fs, ticks>>

(***************************************************************************)
(* The constructor.                                                        *)
(***************************************************************************)
NoTask == "none"

Tasks == {"t1", "t2"}

Constructed(mutexes, starts) ==
  /\ _columns = NULLPTR
  /\ _columnCount = 0
  /\ _records = NULLPTR
  /\ _recordCount = 0
  /\ _recordCapacity = 0
  /\ _tableExists = FALSE
  /\ _mutex \in mutexes
  /\ holder = NoTask
  /\ pc = [t \in Tasks |-> "idle"]
  /\ call = [t \in Tasks |-> <<"none">>]
  /\ now = <<0, 0>>
  /\ start \in starts
  /\ fs = [file |-> NULLPTR, tmp |-> NULLPTR]
  /\ last = [op |-> "constructor", result |-> "void", out |-> NULLPTR]
  /\ ticks = 0
  /\ heap = NoBuffers

Init == Constructed({Ptr("mutex")}, {U32Zero})

(***************************************************************************)
(* The record store under one caller, with the clock standing still: the   *)
(* operations that change the table and its records.                       *)
(***************************************************************************)
Next ==
  \/ \E in \in CreateInputs : CreateTable(in[1], in[2], in[3])
  \/ DropTable
  \/ \E in \in InsertInputs :
       Insert(in[1], in[2], in[3]) /\ InBounds(MaxRecords, MaxInserts)'
  \/ \E in \in UpdateInputs : Update(in[1], in[2], in[3], in[4], in[5])
  \/ \E in \in MathInputs, build \in Builds :
       UpdateWithMath(in[1], in[2], in[3], in[4], in[5], build)
  \/ \E where \in Wheres : DeleteRecords(where)

Spec == Init /\ [][Next]_vars

(***************************************************************************)
(* The expiry of records under one caller: a table of two columns,         *)
(* inserts of one row with and without a TTL, the clock of 32 bits started *)
(* at 0 or just before its wrap and advanced by a millisecond or by half   *)
(* its range between the calls or between the two passes of selectAll and *)
(* top, the scans, the delete and the purge.                               *)
(***************************************************************************)
HalfRange == U32(32768, 0)

ClockStarts == {U32Zero, U32(65535, 65535)}

ClockDeltas == {OneMs, HalfRange}

ExpiryTTLs == {NoTTL, OneMs, HalfRange, IMDB_MAX_TTL_MS}

InitExpiry == Constructed({Ptr("mutex")}, ClockStarts)

NextExpiry ==
  \/ CreateTable(Ptr(Schema), 2, NoFault)
  \/ DropTable
  \/ \E ttlMillis \in ExpiryTTLs :
       Insert(Row1, ttlMillis, NoFault)
       /\ InBounds(MaxTimedRecords, MaxTimedInserts)'
  \/ \E delta \in ClockDeltas : Tick(delta)
  \/ DeleteRecords(<<Ptr("id"), Ptr(1)>>)
  \/ PurgeExpiredRecords
  \/ Count
  \/ Select(Ptr("name"), <<Ptr("id"), Ptr(1)>>, Ptr(NoValue))
  \/ SelectAll(<<Ptr("id"), Ptr(1)>>, Ptr(NULLPTR), NoFault)
  \/ Top(1, Ptr(NULLPTR), NoFault)
  \/ \E delta \in ClockDeltas :
       SelectAllAcross(<<Ptr("id"), Ptr(1)>>, Ptr(NULLPTR), NoFault, delta)
  \/ \E delta \in ClockDeltas : TopAcross(1, Ptr(NULLPTR), NoFault, delta)

SpecExpiry == InitExpiry /\ [][NextExpiry]_vars

(***************************************************************************)
(* The order of the store under one caller: records with and without a TTL *)
(* of a millisecond, the clock advancing by a millisecond, updates,        *)
(* deletes and purges.                                                     *)
(***************************************************************************)
NextOrder ==
  \/ CreateTable(Ptr(Schema), 2, NoFault)
  \/ \E values \in {Row1, Row2}, ttlMillis \in {NoTTL, OneMs} :
       Insert(values, ttlMillis, NoFault)
       /\ InBounds(MaxOrderRecords, MaxOrderRecords)'
  \/ Tick(OneMs)
  \/ Update(Ptr("id"), Ptr(1), Ptr("name"), Str(<<"b">>), NoFault)
  \/ \E id \in {1, 2} : DeleteRecords(<<Ptr("id"), Ptr(id)>>)
  \/ PurgeExpiredRecords

SpecOrder == Init /\ [][NextOrder]_vars

(***************************************************************************)
(* The record array under one caller filling up to its capacity and        *)
(* growing: inserts of one row with every fault of insert and of the       *)
(* growth, and an update that renames the rows stored so far.              *)
(***************************************************************************)
GrowInputs ==
  {in \in InsertInputs : in[1] # Row2}
  \cup {<<Row1, NoTTL, fault>> : fault \in {<<"growHeap", 0>>, <<"realloc", 0>>}}

NextGrow ==
  \/ CreateTable(Ptr(Schema), 2, NoFault)
  \/ DropTable
  \/ \E in \in GrowInputs :
       Insert(in[1], in[2], in[3]) /\ InBounds(MaxGrowRecords, MaxGrowRecords)'
  \/ Update(Ptr("id"), Ptr(1), Ptr("name"), Str(<<"b">>), NoFault)

SpecGrow == Init /\ [][NextGrow]_vars

(***************************************************************************)
(* The arithmetic of updateWithMath under one caller: a table with an      *)
(* Int32, an Epoch and a Float column, rows holding small values and the   *)
(* ends of int32_t, and every operation with operands 0, 10 and -1         *)
(* applied to the rows as they were inserted.                              *)
(***************************************************************************)
MaxMathRecords == 3

MathSchema ==
  <<[name |-> "n", type |-> "IMDB_TYPE_INT32"],
    [name |-> "e", type |-> "IMDB_TYPE_EPOCH"],
    [name |-> "f", type |-> "IMDB_TYPE_FLOAT"]>>

MathRow(n, e, f) == Ptr(<<Ptr(n), Ptr(e), Ptr(<<"num", f>>)>>)

MathRows ==
  {MathRow(2, U32(32767, 65535), 2), MathRow(5, U32(32768, 0), 2),
   MathRow(9, U32(0, 2), -7), MathRow(INT32_MIN, U32(0, 2), 2)}

MathOperations ==
  {"IMDB_MATH_ADD", "IMDB_MATH_SUBTRACT", "IMDB_MATH_MULTIPLY",
   "IMDB_MATH_DIVIDE", "IMDB_MATH_MODULO"}

MathOperands == {0, 10, -1}

\* <<whereColumn, whereValue, setColumn>>
MathTargets ==
  {<<Ptr("n"), Ptr(2), Ptr("n")>>, <<Ptr("e"), Ptr(U32(0, 2)), Ptr("e")>>,
   <<Ptr("f"), Ptr(<<"num", 2>>), Ptr("f")>>, <<Ptr("e"), Ptr(U32(0, 2)), Ptr("n")>>,
   <<Ptr("f"), Ptr(<<"num", 2>>), Ptr("e")>>}

\* the fields a row is stored as
Stored(row) == [k \in 1..Len(Deref(row)) |-> Deref(Deref(row)[k])]

\* every stored record holds the values it was inserted with
AsInserted ==
  \A i \in 1..Len(Recs(_records)) :
    \E row \in MathRows : Deref(Recs(_records)[i].fields) = Stored(row)

NextMath ==
  \/ CreateTable(Ptr(MathSchema), 3, NoFault)
  \/ DropTable
  \/ \E row \in MathRows :
       /\ AsInserted
       /\ Insert(row, NoTTL, NoFault)
       /\ InBounds(MaxMathRecords, MaxMathRecords)'
  \/ \E target \in MathTargets, operation \in MathOperations :
       \E operand \in MathOperands, build \in Builds :
         /\ AsInserted
         /\ UpdateWithMath(target[1], target[2], target[3], operation, operand,
                           build)

SpecMath == Init /\ [][NextMath]_vars

(***************************************************************************)
(* The queries under one caller: three rows, two of them with the same id, *)
(* with and without a TTL of a millisecond, the clock advancing by a       *)
(* millisecond, deletes and purges, and count, countWhere, select,         *)
(* selectAll and top.                                                      *)
(***************************************************************************)
MaxQueryRecords == 3

Row1b == Ptr(<<Ptr(1), Str(<<"b">>)>>)

\* the numbers of rows asked of top
TopCounts == {-1, 0, 2}

\* <<values, ttlMillis>>
QueryRows ==
  {<<Row1, NoTTL>>, <<Row1, OneMs>>, <<Row1b, NoTTL>>, <<Row2, NoTTL>>}

NextQuery ==
  \/ CreateTable(Ptr(Schema), 2, NoFault)
  \/ DropTable
  \/ \E in \in QueryRows :
       Insert(in[1], in[2], NoFault)
       /\ InBounds(MaxQueryRecords, MaxQueryRecords)'
  \/ Tick(OneMs)
  \/ DeleteRecords(<<Ptr("id"), Ptr(2)>>)
  \/ PurgeExpiredRecords
  \/ Count
  \/ CountWhere(<<Ptr("id"), Ptr(1)>>)
  \/ Select(Ptr("name"), <<Ptr("id"), Ptr(1)>>, Ptr(NoValue))
  \/ SelectAll(<<Ptr("id"), Ptr(1)>>, Ptr(NULLPTR), NoFault)
  \/ \E n \in TopCounts : Top(n, Ptr(NULLPTR), NoFault)

SpecQuery == Init /\ [][NextQuery]_vars

(***************************************************************************)
(* The table under one caller being created, dropped, saved and loaded,    *)
(* with every fault of createTable, saveToFile and loadFromFile.           *)
(***************************************************************************)
NextFile ==
  \/ \E in \in CreateInputs \cup {<<Ptr(Schema), 1, NoFault>>} :
       CreateTable(in[1], in[2], in[3])
  \/ DropTable
  \/ \E values \in {Row1, Row2} :
       Insert(values, NoTTL, NoFault)
       /\ InBounds(MaxFileRecords, MaxFileRecords)'
  \/ \E in \in SaveInputs : SaveToFile(in[1], in[2])
  \/ \E in \in LoadInputs : LoadFromFile(in[1], in[2])

SpecFile == Init /\ [][NextFile]_vars

(***************************************************************************)
(* The snapshot taken and read back under one caller: rows with a name and *)
(* with an empty name, with and without a TTL of two milliseconds, the     *)
(* clock started at 0 or three milliseconds before its wrap and advancing  *)
(* by a millisecond between the save, the drop and the load.               *)
(***************************************************************************)
MaxSnapshotRecords == 2

RowEmpty == Ptr(<<Ptr(2), Str(<<>>)>>)

TwoMs == U32(0, 2)

SnapshotStarts == {U32Zero, U32(65535, 65533)}

InitSnapshot == Constructed({Ptr("mutex")}, SnapshotStarts)

NextSnapshot ==
  \/ CreateTable(Ptr(Schema), 2, NoFault)
  \/ DropTable
  \/ \E values \in {Row1, RowEmpty}, ttlMillis \in {NoTTL, TwoMs} :
       Insert(values, ttlMillis, NoFault)
       /\ InBounds(MaxSnapshotRecords, MaxSnapshotRecords)'
  \/ Tick(OneMs)
  \/ SaveToFile(Ptr("/db.bin"), NoFault)
  \/ LoadFromFile(Ptr("/db.bin"), NoFault)

SpecSnapshot == InitSnapshot /\ [][NextSnapshot]_vars

(***************************************************************************)
(* The buffers of the records under one caller: inserts that succeed and   *)
(* inserts that fail at the field array, at a string or on a null value,   *)
(* updates that replace a string and updates that fail after the old one   *)
(* was freed, deletes, purges of records with a TTL of a millisecond, the  *)
(* purge of saveToFile (of a save that then fails to open its file: the    *)
(* writes of a save free and allocate nothing), and dropTable.  The calls  *)
(* stop when malloc has handed out MaxCells buffers.                       *)
(***************************************************************************)
MaxHeapRecords == 2

MaxCells == 5

\* <<values, ttlMillis, fault>>
HeapInserts ==
  {<<Row1, NoTTL, NoFault>>, <<Row2, OneMs, NoFault>>}
  \cup {<<Row1, NoTTL, fault>> : fault \in {<<"fields", 0>>, <<"string", 1>>}}
  \cup {<<Ptr(<<Ptr(1), NullStr>>), NoTTL, NoFault>>}

\* <<setValue, fault>> of an update of the name where the id is 1
HeapUpdates ==
  {<<Str(<<"b">>), NoFault>>, <<NullStr, NoFault>>, <<Str(<<"b">>), <<"string", 0>>>>}

NextHeap ==
  \/ CreateTable(Ptr(Schema), 2, NoFault)
  \/ MemDropTable
  \/ \E in \in HeapInserts :
       /\ MemInsert(in[1], in[2], in[3])
       /\ _recordCount' <= MaxHeapRecords
       /\ Len(heap'.cells) <= MaxCells
  \/ Tick(OneMs)
  \/ \E in \in HeapUpdates :
       /\ MemUpdate(Ptr("id"), Ptr(1), Ptr("name"), in[1], in[2])
       /\ Len(heap'.cells) <= MaxCells
  \/ \E id \in {1, 2} : MemDeleteRecords(<<Ptr("id"), Ptr(id)>>)
  \/ MemPurgeExpiredRecords
  \/ MemSaveToFile(Ptr("/db.bin"), <<"open", 0>>)

SpecHeap == Init /\ [][NextHeap]_vars

(***************************************************************************)
(* Two tasks calling the public operations.  A call waits in lock() until  *)
(* the mutex is free, then does its work on the members and leaves through *)
(* one of its returns.  The mutex may have failed to be created.           *)
(*   pc[t]    "idle", "lock" (in lock()), "in" (past lock(), not yet       *)
(*            returned)                                                    *)
(*   call[t]  at "in" <<operation>>                                        *)
(***************************************************************************)
\* a lock() that returns without taking the mutex
lock_notTaken(mutex, owner, t) == owner

\* lock(): the holder of the mutex once xSemaphoreTake has returned
lock(mutex, owner, t) == IF mutex # NULLPTR THEN t ELSE owner

\* xSemaphoreTake(_mutex, portMAX_DELAY) waits while another task holds it
Blocked(mutex, owner) == mutex # NULLPTR /\ owner # NoTask

\* unlock(): the holder of the mutex after xSemaphoreGive
unlock(mutex, owner) == IF mutex # NULLPTR THEN NoTask ELSE owner

PublicOperations ==
  {"createTable", "dropTable", "insert", "update", "updateWithMath",
   "deleteRecords", "select", "selectAll", "count", "countWhere", "min",
   "max", "top", "purgeExpiredRecords", "getRecordCount", "getMemoryUsage",
   "saveToFile", "loadFromFile"}

\* the heap is low once the store holds MaxLockRecords records
HeapWhenFull ==
  IF _recordCount >= MaxLockRecords THEN <<"heap", 0>> ELSE NoFault

\* the call a task makes of each operation
Run(op) ==
  CASE op = "createTable" -> createTable(Members, Ptr(Schema), 2, NoFault)
    [] op = "dropTable" -> dropTable(Members)
    [] op = "insert" ->
         insert(Members, Row1, NoTTL, HeapWhenFull, millis, History)
    [] op = "update" ->
         update(Members, Ptr("id"), Ptr(1), Ptr("name"), Str(<<"a">>), NoFault,
                millis)
    [] op = "updateWithMath" ->
         updateWithMath(Members, Ptr("id"), Ptr(1), Ptr("id"), "IMDB_MATH_ADD",
                        0, millis, "wraps")
    [] op = "deleteRecords" -> deleteRecords(Members, Ptr("id"), Ptr(1))
    [] op = "select" ->
         select(Members, Ptr("name"), Ptr("id"), Ptr(1), Ptr(NoValue), millis)
    [] op = "selectAll" ->
         selectAll(Members, Ptr("id"), Ptr(1), Ptr(NULLPTR), NoFault, millis,
                   millis)
    [] op = "count" -> count(Members, millis)
    [] op = "countWhere" -> countWhere(Members, Ptr("id"), Ptr(1), millis)
    [] op = "min" -> min(Members, Ptr("id"), Ptr(NoValue), millis)
    [] op = "max" -> max(Members, Ptr("id"), Ptr(NoValue), millis)
    [] op = "top" -> top(Members, 1, Ptr(NULLPTR), NoFault, millis, millis)
    [] op = "purgeExpiredRecords" -> purgeExpiredRecords(Members, millis)
    [] op = "getRecordCount" -> getRecordCount(Members)
    [] op = "getMemoryUsage" -> getMemoryUsage(Members)
    [] op = "saveToFile" ->
         saveToFile(Members, Ptr("/db.bin"), fs, NoFault, millis)
    [] op = "loadFromFile" ->
         loadFromFile(Members, Ptr("/db.bin"), fs, NoFault, millis, History)

\* task t calls a public operation and is in its lock(); which operation
\* it is shows once lock() has returned
Call(t) ==
  /\ pc[t] = "idle"
  /\ pc' = [pc EXCEPT ![t] = "lock"]
  /\ UNCHANGED <<store, _mutex, holder, call, now, start, fs, last, ticks, heap>>

\* lock() returns to task t, which has called op
Lock(t, op) ==
  /\ pc[t] = "lock"
  /\ ~Blocked(_mutex, holder)
  /\ holder' = lock(_mutex, holder, t)
  /\ pc' = [pc EXCEPT ![t] = "in"]
  /\ call' = [call EXCEPT ![t] = <<op>>]
  /\ UNCHANGED <<store, _mutex, now, start, fs, last, ticks, heap>>

\* the operation of task t runs to one of its returns and leaves
Work(t) ==
  /\ pc[t] = "in"
  /\ \E r \in {Run(call[t][1])} :
         /\ _columns' = r.S.columns
         /\ _columnCount' = r.S.columnCount
         /\ _records' = r.S.records
         /\ _recordCount' = r.S.recordCount
         /\ _recordCapacity' = r.S.recordCapacity
         /\ _tableExists' = r.S.tableExists
         /\ fs' = IF call[t][1] = "saveToFile" THEN r.out ELSE fs
         /\ holder' = IF r.unlocked THEN unlock(_mutex, holder) ELSE holder
  /\ pc' = [pc EXCEPT ![t] = "idle"]
  /\ call' = [call EXCEPT ![t] = <<"none">>]
  /\ UNCHANGED <<_mutex, now, start, last, ticks, heap>>

InitLock == Constructed({NULLPTR, Ptr("mutex")}, {U32Zero})

NextLock ==
  \E t \in Tasks :
    \/ Call(t)
    \/ \E op \in PublicOperations : Lock(t, op)
    \/ Work(t)

\* The mutex hands itself to a task that waits for it (the waiting tasks
\* are queued), and a running task runs on.
SpecLock ==
  /\ InitLock
  /\ [][NextLock]_vars
  /\ \A t \in Tasks :
       /\ SF_vars(\E op \in PublicOperations : Lock(t, op))
       /\ WF_vars(Work(t))

(***************************************************************************)
(* Properties of the record store under one caller (Spec).                 *)
(***************************************************************************)
\* C3: while a table exists every createTable call, whatever its arguments,
\* returns IMDB_ERROR_TABLE_EXISTS and leaves the schema and the records as
\* they were; and right after a dropTable that succeeded, createTable with
\* valid arguments succeeds again.
C3_OneSchemaUntilDrop ==
  [][ /\ (_tableExists /\ last'.op = "createTable")
           => (last'.result = "IMDB_ERROR_TABLE_EXISTS" /\ UNCHANGED store)
      /\ (last'.op = "dropTable" /\ last'.result = "IMDB_OK")
           => /\ ~_tableExists'
              /\ createTable(Members', Ptr(Schema), 2, NoFault).result = "IMDB_OK"
    ]_vars

\* a createTable refused over a table that holds two records
C3_Witness ==
  /\ last.op = "createTable"
  /\ last.result = "IMDB_ERROR_TABLE_EXISTS"
  /\ _tableExists
  /\ _recordCount = 2

\* C9 as stated: an update that returns an error has left every record as
\* it was.
C9_UpdateErrorMutatesNothing ==
  [][ (last'.op = "update" /\ last'.result # "IMDB_OK")
        => Recs(_records') = Recs(_records) ]_vars

(***************************************************************************)
(* Properties of expiry (SpecExpiry).                                      *)
(***************************************************************************)
Slots == 1..Len(Recs(_records))

Slot(i) == Recs(_records)[i]

\* the slots (0-based) the scans of the present state stop at
Live == {liveFrom(Members, millis, 0)[k] :
           k \in 1..Len(liveFrom(Members, millis, 0))}

\* the clock has wrapped past 2^32 since construction
Wrapped == TimeAdd(start, now)[1] >= Half

\* C5 as stated: a record inserted with a TTL T > 0 is live for every scan
\* at every clock reading less than T after its insertion.
C5_LiveUntilDeadline ==
  \A i \in Slots :
    (Slot(i).isValid /\ Slot(i).ttl # U32Zero /\ TimeLess(now, Slot(i).due))
      => (~Skipped(Slot(i), millis) /\ (i - 1) \in Live)

\* C6 as stated: once the clock has reached insertion time + T, a record
\* inserted with a TTL T > 0 is expired for every scan while it is in the
\* store.
C6_ExpiredFromDeadline ==
  \A i \in Slots :
    (Slot(i).isValid /\ Slot(i).ttl # U32Zero /\ ~TimeLess(now, Slot(i).due))
      => (Skipped(Slot(i), millis) /\ (i - 1) \notin Live)

\* C30 as stated: when selectAll or top returns IMDB_OK the pass that fills
\* has written exactly the resultCount rows that were counted and allocated,
\* also when the clock advances during the call.
C30_FilledAsCounted ==
  (last.op \in {"selectAll", "top"} /\ last.result = "IMDB_OK")
    => Deref(last.out).filled = Deref(last.out).resultCount

\* C7: a record inserted with ttl = 0 carries the expiry 0, every scan at
\* every clock reading takes it as live, and it leaves the store only by
\* deleteRecords or dropTable (so never by purgeExpiredRecords).
C7_NoTTLNeverExpires ==
  [][ \A i \in Slots :
        Slot(i).ttl = U32Zero
          => /\ Slot(i).expiryMillis = U32Zero
             /\ ~Skipped(Slot(i), millis)
             /\ (i - 1) \in Live
             /\ (\A j \in 1..Len(Recs(_records')) :
                   Recs(_records')[j].serial # Slot(i).serial)
                  => last'.op \in {"deleteRecords", "dropTable"}
    ]_vars

\* a purge with the clock wrapped has removed a record and kept one that
\* was inserted with ttl = 0
C7_Witness ==
  /\ last.op = "purgeExpiredRecords"
  /\ Wrapped
  /\ Stamped > _recordCount
  /\ \E i \in Slots : Slot(i).ttl = U32Zero

(***************************************************************************)
(* Properties of insert at and below the capacity (SpecGrow).              *)
(***************************************************************************)
\* C8: an insert that returns anything but IMDB_OK appends nothing: the
\* record count and every stored record (fields, expiry, validity, order)
\* are as before the call.
C8_FailedInsertAppendsNothing ==
  [][ (last'.op = "insert" /\ last'.result # "IMDB_OK")
        => (_records' = _records /\ _recordCount' = _recordCount) ]_vars

\* an insert into the full array has failed in the growth
C8_Witness ==
  /\ last.op = "insert"
  /\ last.result = "IMDB_ERROR_OUT_OF_MEMORY"
  /\ _recordCount = InitialCapacity
  /\ _recordCapacity = InitialCapacity

\* C11: an insert into a table whose record count equals its capacity
\* either returns IMDB_OK, and then the capacity has doubled, every record
\* stored before is in its place with its fields and expiry, and the new
\* record is the last one; or it returns an error, and then the records are
\* as before.  A growth that fails makes the insert fail with the records
\* and the capacity as before.
C11_GrowthKeepsRecords ==
  /\ [][ (last'.op = "insert" /\ _tableExists /\ _recordCount = _recordCapacity)
          => IF last'.result = "IMDB_OK"
             THEN /\ _recordCapacity' = 2 * _recordCapacity
                  /\ _recordCount' = _recordCount + 1
                  /\ Len(Recs(_records')) = _recordCount + 1
                  /\ SubSeq(Recs(_records'), 1, _recordCount) = Recs(_records)
             ELSE /\ _records' = _records
                  /\ _recordCount' = _recordCount
                  /\ _recordCapacity' \in {_recordCapacity, 2 * _recordCapacity}
        ]_vars
  /\ [](_tableExists /\ _recordCount = _recordCapacity
          => \A fault \in {<<"growHeap", 0>>, <<"realloc", 0>>} :
               LET r == insert(Members, Row1, NoTTL, fault, millis, History)
               IN  /\ r.result \in {"IMDB_ERROR_HEAP_LIMIT",
                                    "IMDB_ERROR_OUT_OF_MEMORY"}
                   /\ r.S = Members)

\* the eleventh record has been appended to an array that held ten
C11_Witness ==
  /\ last.op = "insert"
  /\ last.result = "IMDB_OK"
  /\ _recordCount = InitialCapacity + 1
  /\ _recordCapacity = 2 * InitialCapacity

(***************************************************************************)
(* Properties of the order of the store (SpecOrder).                       *)
(***************************************************************************)
Serials(recs) == [i \in 1..Len(recs) |-> recs[i].serial]

\* the records of recs that others holds too, in the order of recs
Kept(recs, others) ==
  SelectSeq(recs, LAMBDA r : \E j \in 1..Len(others) : others[j].serial = r.serial)

\* C10: whatever the operation, the records that stay in the store keep
\* their relative order, the store is in insertion order, and a delete or a
\* purge leaves the fields of the records that stay as they were.
C10_InsertionOrderKept ==
  [][ LET old == Recs(_records)
          new == Recs(_records')
      IN  /\ Serials(Kept(new, old)) = Serials(Kept(old, new))
          /\ \A i, j \in 1..Len(new) : i < j => new[i].serial < new[j].serial
          /\ last'.op \in {"deleteRecords", "purgeExpiredRecords"}
               => Kept(new, old) = Kept(old, new)
    ]_vars

\* the middle one of three records has been deleted
C10_Witness ==
  /\ last.op = "deleteRecords"
  /\ last.result = "IMDB_OK"
  /\ Serials(Recs(_records)) = <<1, 3>>

(***************************************************************************)
(* Properties of deleteRecords and update over live and expired records    *)
(* (SpecOrder).                                                            *)
(***************************************************************************)
\* the id values the calls of SpecOrder name in their where clause
WhereIds == {1, 2}

\* the slots (1-based) of the store whose id column equals id
Hits(id) == {i \in Slots : Field(Slot(i), 0) = id}

\* the slots (1-based) of the store that are expired at the present clock
Gone == {i \in Slots : isRecordExpired(Slot(i).expiryMillis, millis)}

\* C12 as stated: deleteRecords leaves the matching records that are
\* expired but not yet purged in the store, and when every matching record
\* is expired it returns IMDB_ERROR_NO_RECORDS and changes nothing.
C12_DeleteSkipsExpired ==
  \A id \in WhereIds :
    LET r   == deleteRecords(Members, Ptr("id"), Ptr(id))
        new == Recs(r.S.records)
    IN  _tableExists
          => /\ \A i \in Hits(id) \cap Gone :
                  \E j \in 1..Len(new) : new[j] = Slot(i)
             /\ (Hits(id) # {} /\ Hits(id) \subseteq Gone)
                  => (r.result = "IMDB_ERROR_NO_RECORDS" /\ r.S = Members)

C14_UpdateSetsLiveMatches ==
  \A id \in WhereIds :
    LET r    == update(Members, Ptr("id"), Ptr(id), Ptr("name"), Str(<<"b">>),
                       NoFault, millis)
        new  == Recs(r.S.records)
        live == Hits(id) \ Gone
    IN  _tableExists
          => IF live # {}
             THEN /\ r.result = "IMDB_OK"
                  /\ r.S.recordCount = _recordCount
                  /\ Len(new) = _recordCount
                  /\ \A i \in Slots :
                       new[i] = IF i \in live
                                THEN WithField(Slot(i), 1, Ptr(<<"b">>))
                                ELSE Slot(i)
                  /\ [r.S EXCEPT !.records = _records] = Members
             ELSE r.result = "IMDB_ERROR_NO_RECORDS" /\ r.S = Members

\* an update has renamed a live record and passed over an expired record
\* with the same id
C14_Witness ==
  /\ last.op = "update"
  /\ last.result = "IMDB_OK"
  /\ \E i \in Gone, j \in Slots \ Gone :
       /\ Field(Slot(i), 0) = Field(Slot(j), 0)
       /\ Field(Slot(i), 1) = Ptr(<<"a">>)
       /\ Field(Slot(j), 1) = Ptr(<<"b">>)

(***************************************************************************)
(* Properties of updateWithMath (SpecMath).                                *)
(***************************************************************************)
\* The properties are those of the calls SpecMath makes: the calls on a
\* table whose records are as they were inserted.

\* the slots (1-based) a scan for target stops at: valid, not expired, and
\* holding the where-value in the where-column
LiveHits(target) ==
  {i \in Slots :
     /\ ~Skipped(Slot(i), millis)
     /\ Matches(Members, Slot(i), findColumnIndex(Members, Deref(target[1])),
                target[2])}

SetIdx(target) == findColumnIndex(Members, Deref(target[3]))

SetType(target) == Column(Members, SetIdx(target)).type

\* C15: updateWithMath with Divide or Modulo and the operand 0 never
\* returns IMDB_OK and leaves every record as it was, whether the
\* set-column is Int32, Epoch or Float and however many rows match; when
\* at least one live row matches it returns IMDB_ERROR_INVALID_OPERATION.
C15_DivisionByZeroRejected ==
  AsInserted =>
    \A target \in MathTargets, build \in Builds :
      \A operation \in {"IMDB_MATH_DIVIDE", "IMDB_MATH_MODULO"} :
        LET r == updateWithMath(Members, target[1], target[2], target[3],
                                operation, 0, millis, build)
        IN  /\ r.result # "IMDB_OK"
            /\ r.S = Members
            /\ (_tableExists /\ LiveHits(target) # {})
                 => r.result = "IMDB_ERROR_INVALID_OPERATION"

\* a division by 0 has been refused on a table of three rows that all
\* matched
C15_Witness ==
  /\ last.op = "updateWithMath"
  /\ last.result = "IMDB_ERROR_INVALID_OPERATION"
  /\ _recordCount = 3
  /\ \A i \in Slots : Field(Slot(i), 0) = INT32_MIN

\* the calls whose where-column is their set-column
SameColumn == {target \in MathTargets : target[1] = target[3]}

\* C16: when the where-column is the set-column, updateWithMath changes a
\* record only if it is live and its value before the call equals the
\* where-value, and then to the result of one application of the operation
\* to that value; a call that returns IMDB_OK has changed every such
\* record.  The same holds of update.
C16_TestedOnceOnOldValue ==
  (_tableExists /\ AsInserted) =>
    /\ \A target \in SameColumn, operation \in MathOperations :
         \A operand \in MathOperands, build \in Builds :
           LET r    == updateWithMath(Members, target[1], target[2], target[3],
                                      operation, operand, millis, build)
               new  == Recs(r.S.records)
               val(i)  == Field(Slot(i), SetIdx(target))
               once(i) ==
                 IF operation \in {"IMDB_MATH_DIVIDE", "IMDB_MATH_MODULO"}
                    /\ operand = 0
                 THEN <<"invalid">>
                 ELSE <<"value",
                        CASE SetType(target) = "IMDB_TYPE_FLOAT" ->
                               FloatMath(val(i), operation, operand)
                          [] SetType(target) = "IMDB_TYPE_INT32" ->
                               Wrapping(val(i), operation, operand)
                          [] SetType(target) = "IMDB_TYPE_EPOCH" ->
                               ToWord(Wrapping(FromWord(val(i)), operation,
                                               operand))>>
           IN  /\ Len(new) = _recordCount
               /\ \A i \in Slots :
                    \/ new[i] = Slot(i)
                    \/ /\ i \in LiveHits(target)
                       /\ once(i)[1] = "value"
                       /\ new[i] = WithField(Slot(i), SetIdx(target), once(i)[2])
               /\ r.result = "IMDB_OK"
                    => \A i \in LiveHits(target) :
                         new[i] = WithField(Slot(i), SetIdx(target), once(i)[2])
    /\ LET target == <<Ptr("n"), Ptr(2), Ptr("n")>>
           r   == update(Members, target[1], target[2], target[3], Ptr(5),
                         NoFault, millis)
           new == Recs(r.S.records)
       IN  /\ Len(new) = _recordCount
           /\ \A i \in Slots :
                new[i] = IF i \in LiveHits(target)
                         THEN WithField(Slot(i), 0, 5) ELSE Slot(i)

\* the rows 5, 2, 9 with the where-value 2 and Add 10 have become 5, 12, 9
C16_Witness ==
  /\ last.op = "updateWithMath"
  /\ last.result = "IMDB_OK"
  /\ _recordCount = 3
  /\ <<Field(Slot(1), 0), Field(Slot(2), 0), Field(Slot(3), 0)>> = <<5, 12, 9>>

\* C17 as stated: on an Int32 or Epoch set-column every Add, Subtract and
\* Multiply returns with the matching values replaced by the result modulo
\* 2^32, and every Divide and Modulo by a non-zero operand returns with a
\* 32-bit result, whatever the stored value and the operand.
C17_WrapsModulo2_32 ==
  (_tableExists /\ AsInserted) =>
    \A target \in {t \in MathTargets : t[3] # Ptr("f")}, build \in Builds :
      \A operation \in MathOperations, operand \in MathOperands :
        (operation \in {"IMDB_MATH_DIVIDE", "IMDB_MATH_MODULO"} => operand # 0)
          => LET r   == updateWithMath(Members, target[1], target[2], target[3],
                                       operation, operand, millis, build)
                 new == Recs(r.S.records)
                 val(i) == Field(Slot(i), SetIdx(target))
                 wrapped(i) ==
                   IF SetType(target) = "IMDB_TYPE_INT32"
                   THEN Wrapping(val(i), operation, operand)
                   ELSE ToWord(Wrapping(FromWord(val(i)), operation, operand))
             IN  /\ r.result \in {"IMDB_OK", "IMDB_ERROR_NO_RECORDS"}
                 /\ \A i \in LiveHits(target) :
                      Field(new[i], SetIdx(target)) = wrapped(i)

\* a is before b in the ordering of the column type: Int32 signed, Epoch as
\* an unsigned 32-bit number, Float by value
OwnBelow(a, b, type) ==
  IF type = "IMDB_TYPE_INT32" THEN a < b
  ELSE IF type = "IMDB_TYPE_EPOCH" THEN U32Greater(b, a)
  ELSE a[2] < b[2]

\* the slot min (wantMin) or max has to answer for the column: the first
\* one no other slot is before (after) in the ordering of the column type
FirstExtreme(colIdx, wantMin) ==
  LET type   == MathSchema[colIdx + 1].type
      val(i) == Field(Slot(i), colIdx)
      beats(i, j) == IF wantMin THEN OwnBelow(val(i), val(j), type)
                     ELSE OwnBelow(val(j), val(i), type)
  IN  CHOOSE k \in 1.._recordCount :
        /\ \A j \in 1.._recordCount : ~beats(j, k)
        /\ \A j \in 1..(k - 1) : beats(k, j)

\* C22 as stated: min and max of a numeric column return the smallest and the
\* largest value of the live records in the ordering of the column type
\* (Int32 signed, Epoch unsigned 32-bit, Float by value), the first record
\* met among equal ones, and IMDB_ERROR_NO_RECORDS when no record is live.
C22_MinMaxOwnOrdering ==
  (_tableExists /\ AsInserted) =>
    \A colIdx \in 0..2, wantMin \in BOOLEAN :
      LET column == Ptr(MathSchema[colIdx + 1].name)
          r == IF wantMin THEN min(Members, column, Ptr(NoValue), millis)
               ELSE max(Members, column, Ptr(NoValue), millis)
      IN  IF _recordCount = 0
          THEN r.result = "IMDB_ERROR_NO_RECORDS" /\ ~Deref(r.out).hasValue
          ELSE /\ r.result = "IMDB_OK"
               /\ Deref(r.out).hasValue
               /\ Deref(r.out).value = Field(Slot(FirstExtreme(colIdx, wantMin)),
                                             colIdx)

(***************************************************************************)
(* Properties of the purge and of the queries (SpecQuery).  The clock of   *)
(* SpecQuery stays far from the deadlines it cannot tell apart, so a       *)
(* record is expired when its deadline has been reached.                   *)
(***************************************************************************)
\* the record has no TTL, or the clock has not reached its deadline
Alive(rec) == rec.ttl = U32Zero \/ TimeLess(now, rec.due)

\* the slots (1-based) holding a valid record that is not expired
AliveSlots == {i \in Slots : Slot(i).isValid /\ Alive(Slot(i))}

\* C18: purgeExpiredRecords removes the records that are expired when it is
\* called and no other: the records that are not expired stay with their
\* fields and expiry in their order, no stored record is expired
\* afterwards, and getRecordCount equals count.
C18_PurgeRemovesExpired ==
  _tableExists =>
    LET r   == purgeExpiredRecords(Members, millis)
        new == Recs(r.S.records)
    IN  /\ new = SelectSeq(Recs(_records), Alive)
        /\ \A j \in 1..Len(new) : ~isRecordExpired(new[j].expiryMillis, millis)
        /\ getRecordCount(r.S).out = count(r.S, millis).out
        /\ getRecordCount(r.S).out = Len(new)

\* a purge has left the first and the third record
C18_Witness ==
  /\ last.op = "purgeExpiredRecords"
  /\ Serials(Recs(_records)) = <<1, 3>>
  /\ ticks > 0

\* C19: count returns the number of valid records that are not expired,
\* countWhere the number of those that hold the where-value, whether or not
\* the expired records have been purged; both return 0 without a table.
C19_CountsLiveRecords ==
  /\ count(Members, millis).out
       = IF _tableExists THEN Cardinality(AliveSlots) ELSE 0
  /\ \A id \in WhereIds :
       countWhere(Members, Ptr("id"), Ptr(id), millis).out
         = IF _tableExists THEN Cardinality(AliveSlots \cap Hits(id)) ELSE 0

\* count has returned 1 for a store of a record without a TTL and an
\* expired one
C19_Witness ==
  /\ last.op = "count"
  /\ last.out = 1
  /\ _recordCount = 2
  /\ \E i \in Slots : Slot(i).ttl = U32Zero
  /\ \E i \in Slots : ~Alive(Slot(i))

\* C20: select returns the requested column of the first record in store
\* order that is valid, not expired and holds the where-value; when there
\* is none it returns IMDB_ERROR_NO_RECORDS with hasValue false, even if an
\* expired record holds the where-value.
C20_SelectFirstLiveMatch ==
  _tableExists =>
    \A id \in WhereIds :
      LET r    == select(Members, Ptr("name"), Ptr("id"), Ptr(id), Ptr(NoValue),
                         millis)
          hits == AliveSlots \cap Hits(id)
      IN  IF hits = {}
          THEN r.result = "IMDB_ERROR_NO_RECORDS" /\ ~Deref(r.out).hasValue
          ELSE LET first == CHOOSE i \in hits : \A j \in hits : i <= j
               IN  /\ r.result = "IMDB_OK"
                   /\ Deref(r.out) = [type |-> "IMDB_TYPE_STRING", hasValue |-> TRUE,
                                      value |-> Deref(Field(Slot(first), 1))]

\* select has passed over an expired first record named a and returned the
\* name b of a later record with the same id
C20_Witness ==
  /\ last.op = "select"
  /\ last.result = "IMDB_OK"
  /\ Deref(last.out).value = <<"b">>
  /\ Field(Slot(1), 0) = 1
  /\ Field(Slot(1), 1) = Ptr(<<"a">>)
  /\ ~Alive(Slot(1))

\* the sequence of the slots (1-based) of a set, in store order
InOrder(slots) == SelectSeq([k \in 1..Len(Recs(_records)) |-> k], LAMBDA k : k \in slots)

\* the row of the two columns of the schema for the record in slot i
WholeRow(i) ==
  <<[type |-> "IMDB_TYPE_INT32", hasValue |-> TRUE, value |-> Field(Slot(i), 0)],
    [type |-> "IMDB_TYPE_STRING", hasValue |-> TRUE,
     value |-> Deref(Field(Slot(i), 1))]>>

\* C21: selectAll returns, in store order, one row per valid record that is
\* not expired and holds the where-value, each row with the values of all
\* columns in schema order, and resultCount is the number of these records;
\* when there is none it returns IMDB_ERROR_NO_RECORDS, a null result
\* pointer and resultCount 0.
C21_SelectAllRows ==
  _tableExists =>
    \A id \in WhereIds :
      LET r    == selectAll(Members, Ptr("id"), Ptr(id), Ptr(NULLPTR), NoFault,
                            millis, millis)
          hits == InOrder(AliveSlots \cap Hits(id))
      IN  IF hits = <<>>
          THEN /\ r.result = "IMDB_ERROR_NO_RECORDS"
               /\ Deref(r.out).results = NULLPTR
               /\ Deref(r.out).resultCount = 0
          ELSE /\ r.result = "IMDB_OK"
               /\ Deref(r.out).resultCount = Len(hits)
               /\ Deref(Deref(r.out).results)
                    = [k \in 1..Len(hits) |-> WholeRow(hits[k])]

\* selectAll has returned the rows b and a of two records with the same id,
\* in the order of the store, past an expired first record
C21_Witness ==
  /\ last.op = "selectAll"
  /\ last.result = "IMDB_OK"
  /\ Deref(last.out).resultCount = 2
  /\ _recordCount = 3
  /\ ~Alive(Slot(1))
  /\ Deref(Deref(last.out).results)[1][2].value = <<"b">>
  /\ Deref(Deref(last.out).results)[2][2].value = <<"a">>

\* the smaller of two numbers
Least(a, b) == IF a < b THEN a ELSE b

\* the rows of the first n records that are valid and not expired
FirstRows(n) ==
  [k \in 1..Least(n, Cardinality(AliveSlots)) |-> WholeRow(InOrder(AliveSlots)[k])]

LowHeap == <<"heap", 0>>

\* C24 as stated: with the free heap below the threshold createTable,
\* insert, update of a String column, selectAll and top return
\* IMDB_ERROR_HEAP_LIMIT and leave the store as it was, whenever they have
\* something to allocate.
C24_HeapCheckedBeforeAllocating ==
  LET refused(r) == r.result = "IMDB_ERROR_HEAP_LIMIT" /\ r.S = Members
  IN  IF ~_tableExists
      THEN refused(createTable(Members, Ptr(Schema), 2, LowHeap))
      ELSE /\ refused(insert(Members, Row1, NoTTL, LowHeap, millis, History))
           /\ \A id \in WhereIds :
                AliveSlots \cap Hits(id) # {}
                  => /\ refused(update(Members, Ptr("id"), Ptr(id), Ptr("name"),
                                       Str(<<"b">>), LowHeap, millis))
                     /\ refused(selectAll(Members, Ptr("id"), Ptr(id),
                                          Ptr(NULLPTR), LowHeap, millis, millis))
           /\ AliveSlots # {}
                => refused(top(Members, 2, Ptr(NULLPTR), LowHeap, millis, millis))

(***************************************************************************)
(* Properties of the schema (SpecFile).                                    *)
(***************************************************************************)
\* C4: a column array is held exactly when the table exists, and then it
\* is one array of _columnCount columns, those the table was created with.
C4_SchemaIffTable ==
  /\ _tableExists <=> _columns # NULLPTR
  /\ _tableExists
       => /\ _columnCount >= 1
          /\ Deref(_columns) = SubSeq(Schema, 1, _columnCount)

\* a loadFromFile that had read the schema has failed on the second record
\* of the file
C4_Witness ==
  /\ last.op = "loadFromFile"
  /\ last.result = "IMDB_ERROR_FILE_READ"
  /\ fs.file # NULLPTR
  /\ Deref(fs.file).recordCount = 2
  /\ _columnCount = Deref(fs.file).columnCount
  /\ ~_tableExists

\* the store holds no table and no record, and answers as such: count is 0,
\* the data operations return IMDB_ERROR_NO_TABLE, createTable succeeds and
\* so does loadFromFile of a file that is there
NoTableSeen ==
  /\ ~_tableExists
  /\ _recordCount = 0
  /\ _records = NULLPTR
  /\ _columns = NULLPTR
  /\ count(Members, millis).out = 0
  /\ insert(Members, Row1, NoTTL, NoFault, millis, History).result
       = "IMDB_ERROR_NO_TABLE"
  /\ select(Members, Ptr("name"), Ptr("id"), Ptr(1), Ptr(NoValue),
            millis).result = "IMDB_ERROR_NO_TABLE"
  /\ createTable(Members, Ptr(Schema), 2, NoFault).result = "IMDB_OK"
  /\ fs.file # NULLPTR
       => loadFromFile(Members, Ptr("/db.bin"), fs, NoFault, millis,
                       History).result = "IMDB_OK"

\* C25 as stated: after a loadFromFile that returned anything but IMDB_OK
\* there is no table and no record.
C25_AnyFailedLoadLeavesNoTable ==
  (last.op = "loadFromFile" /\ last.result # "IMDB_OK") => NoTableSeen

\* C25: a loadFromFile called without a table that returns anything but
\* IMDB_OK (no file, a header, schema or record that cannot be read, the
\* heap limit or a failed allocation at any point) leaves no table and no
\* record; called with a table it returns IMDB_ERROR_TABLE_EXISTS, or
\* IMDB_ERROR_INVALID_VALUE for a null filename, and leaves the table as it
\* was.
C25_FailedLoadLeavesNoTable ==
  [][ last'.op = "loadFromFile"
        => IF _tableExists
           THEN /\ last'.result \in {"IMDB_ERROR_TABLE_EXISTS",
                                     "IMDB_ERROR_INVALID_VALUE"}
                /\ UNCHANGED store
           ELSE last'.result # "IMDB_OK" => NoTableSeen'
    ]_vars

\* a load has stopped at the allocation of the record array, after the
\* schema was read and the table marked as existing
C25_Witness ==
  /\ last.op = "loadFromFile"
  /\ last.result = "IMDB_ERROR_OUT_OF_MEMORY"
  /\ fs.file # NULLPTR
  /\ _columnCount = 2
  /\ _recordCapacity = InitialCapacity
  /\ ~_tableExists

\* C26 as stated: a saveToFile that returns an error leaves the snapshot
\* stored under the filename as it was and no temporary file.
C26_FailedSaveKeepsSnapshot ==
  [][ (last'.op = "saveToFile" /\ last'.result # "IMDB_OK" /\ fs.file # NULLPTR)
        => fs'.file = fs.file /\ fs'.tmp = NULLPTR ]_vars

(***************************************************************************)
(* Properties of the snapshot read back (SpecSnapshot).                    *)
(***************************************************************************)
\* a store as the constructor leaves it
Fresh ==
  [columns |-> NULLPTR, columnCount |-> 0, records |-> NULLPTR,
   recordCount |-> 0, recordCapacity |-> 0, tableExists |-> FALSE]

\* the present store saved and read back into a fresh store at once
Reloaded ==
  LET saved == saveToFile(Members, Ptr("/db.bin"), fs, NoFault, millis)
  IN  loadFromFile(Fresh, Ptr("/db.bin"), saved.out, NoFault, millis, History)

\* the where-clauses of the queries: by id, by name and by the empty name
SnapshotWheres ==
  {<<Ptr("id"), Ptr(1)>>, <<Ptr("id"), Ptr(2)>>,
   <<Ptr("name"), Str(<<"a">>)>>, <<Ptr("name"), Str(<<>>)>>}

\* what select, selectAll and top return from the store S
Answers(S) ==
  [where \in SnapshotWheres |->
     LET one == select(S, Ptr("id"), where[1], where[2], Ptr(NoValue), millis)
         all == selectAll(S, where[1], where[2], Ptr(NULLPTR), NoFault,
                           millis, millis)
         first == top(S, MaxSnapshotRecords + 1, Ptr(NULLPTR), NoFault,
                      millis, millis)
     IN  <<one.result, one.out, all.result, all.out, first.result, first.out>>]

RemainingAt(expiry, clock) ==
  IF expiry = U32Zero THEN <<"forever">> ELSE <<"ms", U32Sub(expiry, clock)>>

\* C28 as stated: a record read back by loadFromFile has at the load the
\* lifetime left that it had at the save, whatever the clock readings at the
\* save and at the load and whatever that lifetime, and a record saved
\* without a deadline has none.
C28_RemainingLifetimeKept ==
  (last.op = "loadFromFile" /\ last.result = "IMDB_OK") =>
    \A i \in Slots :
      RemainingAt(Slot(i).expiryMillis, millis)
        = RemainingAt(Deref(fs.file).records[i].expiryMillis,
                      Deref(fs.file).saveMillis)

\* what each operation that needs a table returns for the store as it is,
\* called with null arguments (nulls) or with arguments that are in order
NeedTable(nulls) ==
  LET name    == IF nulls THEN NULLPTR ELSE Ptr("name")
      id      == IF nulls THEN NULLPTR ELSE Ptr("id")
      one     == IF nulls THEN NULLPTR ELSE Ptr(1)
      str     == IF nulls THEN NULLPTR ELSE Str(<<"b">>)
      row     == IF nulls THEN NULLPTR ELSE Row1
      value   == IF nulls THEN NULLPTR ELSE Ptr(NoValue)
      rows    == IF nulls THEN NULLPTR ELSE Ptr(NULLPTR)
      file    == IF nulls THEN NULLPTR ELSE Ptr("/db.bin")
  IN  <<insert(Members, row, NoTTL, NoFault, millis, History),
        update(Members, id, one, name, str, NoFault, millis),
        updateWithMath(Members, id, one, id, "IMDB_MATH_ADD", 1, millis,
                       "wraps"),
        deleteRecords(Members, id, one),
        select(Members, name, id, one, value, millis),
        selectAll(Members, id, one, rows, NoFault, millis, millis),
        min(Members, id, value, millis),
        max(Members, id, value, millis),
        top(Members, 1, rows, NoFault, millis, millis),
        dropTable(Members),
        [saveToFile(Members, file, fs, NoFault, millis) EXCEPT !.out = NULLPTR]>>

\* C29: without a table insert, update, updateWithMath, deleteRecords,
\* select, selectAll, min, max, top, dropTable and saveToFile return
\* IMDB_ERROR_NO_TABLE, whatever their arguments (null ones too), and leave
\* the store and the files as they were; dropTable on a table returns
\* IMDB_OK and leaves the store as the constructor did, without schema and
\* records.
C29_NoTableFirst ==
  /\ [](~_tableExists =>
          \A nulls \in BOOLEAN :
            /\ \A k \in 1..Len(NeedTable(nulls)) :
                 /\ NeedTable(nulls)[k].result = "IMDB_ERROR_NO_TABLE"
                 /\ NeedTable(nulls)[k].S = Members
            /\ saveToFile(Members, IF nulls THEN NULLPTR ELSE Ptr("/db.bin"),
                          fs, NoFault, millis).out = fs)
  /\ [][ (last'.op = "dropTable" /\ _tableExists)
           => /\ last'.result = "IMDB_OK"
              /\ Members' = Fresh
              /\ NoTableSeen' ]_vars

\* dropTable has been called a second time after a table with a record
\* was saved and dropped
C29_Witness ==
  /\ last.op = "dropTable"
  /\ last.result = "IMDB_ERROR_NO_TABLE"
  /\ ~_tableExists
  /\ fs.file # NULLPTR
  /\ Deref(fs.file).recordCount = 1

\* C31 as stated: no record with a finite TTL is stored with the expiry 0
\* that stands for "never expires": the expiry insert stores for a ttl > 0
\* is not 0, and the expiry loadFromFile stores for a saved expiry other
\* than 0 is not 0.
C31_FiniteTTLNeverSentinel ==
  /\ (last.op = "insert" /\ last.result = "IMDB_OK")
       => (Slot(_recordCount).ttl # U32Zero
             => Slot(_recordCount).expiryMillis # U32Zero)
  /\ (last.op = "loadFromFile" /\ last.result = "IMDB_OK")
       => \A i \in Slots :
            Deref(fs.file).records[i].expiryMillis # U32Zero
              => Slot(i).expiryMillis # U32Zero

\* what countWhere and selectAll return from the store S for each
\* where-clause
Equalities(S) ==
  [where \in SnapshotWheres |->
     LET n   == countWhere(S, where[1], where[2], millis)
         all == selectAll(S, where[1], where[2], Ptr(NULLPTR), NoFault,
                          millis, millis)
     IN  <<n.result, n.out, all.result, all.out>>]

\* C32 as stated: after a save and a load into a fresh store every equality
\* query answers as before the save: countWhere and the rows of selectAll
\* are the same for every column and value, the empty string in a String
\* column included.
C32_EqualityQueriesKept ==
  _tableExists =>
    /\ Reloaded.result = "IMDB_OK"
    /\ Equalities(Reloaded.S) = Equalities(Members)

\* C33 as stated: whenever no table exists (after the constructor, after
\* dropTable, after a createTable or a loadFromFile that failed at any step)
\* the column count, the record count and the record capacity are 0, no
\* array is held, and getMemoryUsage and getRecordCount return 0.
C33_NoTableFullyReset ==
  ~_tableExists =>
    /\ _columnCount = 0
    /\ _recordCount = 0
    /\ _recordCapacity = 0
    /\ _columns = NULLPTR
    /\ _records = NULLPTR
    /\ getMemoryUsage(Members).out = 0
    /\ getRecordCount(Members).out = 0

Buffers(slot) ==
  LET fields == heap.array[slot].fields
  IN  IF fields = 0 THEN {}
      ELSE {fields}
           \cup {FieldAt(heap, fields, j - 1) :
                   j \in {k \in 1..Len(heap.cells[fields].content) :
                            /\ Schema[k].type = "IMDB_TYPE_STRING"
                            /\ FieldAt(heap, fields, k - 1) # 0}}

\* the records the counted slots stand for, read through their addresses
Pointed ==
  [slot \in 1..heap.count |->
     [fields |-> IF heap.array[slot].fields = 0 THEN NULLPTR
                 ELSE Ptr([j \in 1..Len(heap.cells[heap.array[slot].fields].content) |->
                             StoredValue(heap, Schema[j].type,
                                         FieldAt(heap, heap.array[slot].fields, j - 1))]),
      expiryMillis |-> heap.array[slot].expiryMillis,
      isValid |-> heap.array[slot].isValid]]

\* C35: over every sequence of inserts (failed ones too), updates, deletes,
\* purges, saves and drops no buffer of a record is freed twice, no two
\* slots below the record count share a field array or a string, and every
\* slot below the record count refers to buffers that are allocated and
\* hold the values of its record.
C35_BuffersOwnedOnce ==
  /\ heap.errors = {}
  /\ heap.count = _recordCount
  /\ \A slot \in 1..heap.count :
       /\ heap.array[slot].fields # 0
       /\ \A address \in Buffers(slot) : heap.cells[address].live
       /\ \A other \in 1..heap.count :
            other # slot => Buffers(other) \cap Buffers(slot) = {}
  /\ Pointed = [slot \in 1..heap.count |->
                  [fields |-> Slot(slot).fields,
                   expiryMillis |-> Slot(slot).expiryMillis,
                   isValid |-> Slot(slot).isValid]]

\* a record was deleted from the front of the array after an insert had
\* failed and freed its field array: the record that moved down owns its
\* buffers, the slot it left is behind the record count, and the cells of
\* the failed insert and of the deleted record are free
C35_Witness ==
  /\ last.op = "deleteRecords"
  /\ last.result = "IMDB_OK"
  /\ heap.count = 1
  /\ Len(heap.array) > heap.count
  /\ heap.array[1].fields >= 4
  /\ Cardinality({a \in 1..Len(heap.cells) : ~heap.cells[a].live}) >= 3

(***************************************************************************)
(* Properties of the operations that only read (SpecQuery).                *)
(***************************************************************************)
ReadOnlyOperations ==
  {"select", "selectAll", "count", "countWhere", "min", "max", "top",
   "getRecordCount", "getMemoryUsage"}

\* what the nine operations return for the store as it is: called with
\* arguments that find records, with arguments that find none, with null
\* arguments and with a result buffer that cannot be allocated
ReadOnlyCalls ==
  {count(Members, millis),
   getRecordCount(Members),
   getMemoryUsage(Members),
   min(Members, NULLPTR, Ptr(NoValue), millis),
   min(Members, Ptr("id"), Ptr(NoValue), millis),
   max(Members, Ptr("id"), Ptr(NoValue), millis),
   max(Members, Ptr("name"), Ptr(NoValue), millis),
   top(Members, 1, NULLPTR, NoFault, millis, millis),
   top(Members, 2, Ptr(NULLPTR), <<"results", 0>>, millis, millis)}
  \cup {countWhere(Members, Ptr("id"), Ptr(k), millis) : k \in 1..2}
  \cup {select(Members, Ptr("name"), Ptr("id"), Ptr(k), Ptr(NoValue), millis) :
          k \in 1..2}
  \cup {selectAll(Members, Ptr("id"), Ptr(k), Ptr(NULLPTR),
                  IF k = 1 THEN NoFault ELSE <<"results", 0>>, millis, millis) :
          k \in 1..2}
  \cup {top(Members, k, Ptr(NULLPTR), NoFault, millis, millis) : k \in 1..2}

\* C36: select, selectAll, count, countWhere, min, max, top, getRecordCount
\* and getMemoryUsage leave the schema, the record count and every record
\* (fields, expiry, validity, position) as they were, whatever they return;
\* the expired records they pass over stay in the store.
C36_ReadOnlyLeavesStore ==
  /\ [](\A r \in ReadOnlyCalls : r.S = Members)
  /\ [][last'.op \in ReadOnlyOperations => UNCHANGED store]_vars

\* selectAll has found no record because the only record with the id is
\* expired, and that record is still in the store
C36_Witness ==
  /\ last.op = "selectAll"
  /\ last.result = "IMDB_ERROR_NO_RECORDS"
  /\ Hits(1) # {}
  /\ Hits(1) \subseteq Gone
  /\ \A i \in Hits(1) : Slot(i).isValid /\ Slot(i).fields # NULLPTR

(***************************************************************************)
(* Properties of the lock (SpecLock).                                      *)
(***************************************************************************)
\* the tasks that are past lock() and have not left
Inside == {t \in Tasks : pc[t] = "in"}

\* C1 as stated: at most one operation is inside the store at any time, and
\* while an operation is inside, no other task changes the store.
C1_OneInside ==
  [][ /\ Cardinality(Inside) <= 1
      /\ \A t \in Inside : pc'[t] = pc[t] => UNCHANGED <<store, fs>>
    ]_vars

\* C1 with the condition the code puts on it: when the mutex was created
\* (isThreadSafe() is true), at most one operation is inside the store at
\* any time, and while it is inside no other task changes the store.
C1_OneInsideWithMutex ==
  [][ _mutex # NULLPTR
        => /\ Cardinality(Inside) <= 1
           /\ Cardinality(Inside') <= 1
           /\ \A t \in Inside : holder = t
           /\ \A t \in Inside : pc'[t] = pc[t] => UNCHANGED <<store, fs>>
    ]_vars

\* a task holds the mutex in an insert into a table, the other waits in
\* lock()
C1_Witness ==
  /\ _mutex # NULLPTR
  /\ pc["t1"] = "in"
  /\ call["t1"] = <<"insert">>
  /\ holder = "t1"
  /\ _tableExists
  /\ pc["t2"] = "lock"

\* C2: the lock is free whenever no operation is in progress (every return
\* releases it), and a caller that waits for the lock comes to hold it.
C2_LockReleasedAndAcquired ==
  /\ [](Inside = {} => holder = NoTask)
  /\ \A t \in Tasks : (pc[t] = "lock") ~> (pc[t] = "in")

\* a caller waits for the lock while the holder is in a dropTable that
\* will return an error
C2_Witness ==
  /\ _mutex # NULLPTR
  /\ pc["t2"] = "lock"
  /\ pc["t1"] = "in"
  /\ holder = "t1"
  /\ call["t1"] = <<"dropTable">>
  /\ ~_tableExists

====
